---- MODULE Spec2Model ----
(***************************************************************************)
(* Model of the video-bookmarks browser extension:                         *)
(*   - BackgroundManager (src/background/manager.ts, second listing,       *)
(*     lines 676-1560): the per-tab registry activeVideos and its message  *)
(*     and tab-event handlers;                                             *)
(*   - StorageManager (src/components/NotificationManager.tsx, third       *)
(*     listing, lines 632-964): read-modify-write operations on the        *)
(*     bookmark collection kept in chrome.storage.local;                   *)
(*   - StorageRecovery (src/storage/recovery.ts);                          *)
(*   - withRetry (src/background/playerProxy.ts, lines 120-247);           *)
(*   - the popup list (src/popup/components/BookmarkList.tsx) and the      *)
(*     per-tab controls (src/contentScript/ui/controls.ts).                *)
(*                                                                         *)
(* Every asynchronous storage call is an in-flight operation in `ops` that *)
(* advances one await at a time (get, then set), so that handlers and      *)
(* operations interleave exactly at the await points of the source.        *)
(* The session fields lastUpdate and autoTracked are written but never     *)
(* read by a modelled operation and are left out of the session record.    *)
(* Of chrome.storage.local only the bookmark collection is carried: the    *)
(* backup key that checkBackup writes after a save is not.  In the         *)
(* registry and observer specifications a storage call fails only where    *)
(* the source itself throws (NOT_FOUND); in the specification of the       *)
(* StorageManager methods every chrome.storage.local call may also reject. *)
(***************************************************************************)
EXTENDS Integers, Sequences, FiniteSets, TLC

VARIABLES
  activeVideos,   \* BackgroundManager.state.activeVideos : tabId -> ActiveVideo
  bookmarks,      \* chrome.storage.local[StorageKeys.BOOKMARKS] : id -> VideoBookmark
  ops,            \* in-flight StorageManager operations (suspended at an await)
  now,            \* Date.now()
  confirms,       \* activations of handleConfirmDelete suspended at an await
  msgs,           \* messages sent and not yet delivered, a queue per receiver
  popup,          \* the BookmarkList component of the popup
  controls,       \* the VideoControls instance of each tab
  undone,         \* history: ids for which an observer sent UNDO_DELETE and none sent INITIATE_DELETE since
  pendingIds,     \* history: ids with INITIATE_DELETE handled and neither undone nor confirmed
  repair,         \* StorageRecovery: the input and result of a repair, or the position of restoreFromBackup
  retry,          \* one call of withRetry: its position, counters and outcome
  call,           \* one call of a StorageManager method: its position, locals and outcome
  storage,        \* chrome.storage.local[SETTINGS] and [BACKUP] (and [BOOKMARKS] as stored values for restoreFromBackup)
  periodic,       \* history: the tabs whose session the last periodic save passed to saveVideoState
  timers,         \* BackgroundManager: isInitialized, its two intervals, and as history the firings of the daily one
  handled,        \* history: ids with CONFIRM_DELETE handled since their pending episode began
  dropped,        \* history: the last UPDATE_TIMESTAMP that handleUpdateTimestamp returned early on
  roundTrip       \* history: the state before the last INITIATE_DELETE, until any other step

observerVars == <<msgs, popup, controls, undone>>

methodVars == <<repair, retry, call, storage, periodic, timers, dropped>>

pureVars == <<methodVars, handled>>

vars == <<activeVideos, bookmarks, ops, now, confirms, observerVars, pendingIds, roundTrip,
          pureVars>>

----------------------------------------------------------------------------
(* Bounds *)

MaxTimestamp == 2
MaxOps == 2
MaxConfirms == 2
MaxQueue == 1
MaxTime == 3
MaxAttempts == 3
MaxIntervals == 2

(* Program constants *)

\* STORAGE_RETRY_CONFIG.maxAttempts
StorageMaxAttempts == 3

(* Input domains *)

Tabs == {1, 2}
VideoIds == {"A", "B"}
Timestamps == 0..MaxTimestamp
\* the registry specification drives positions 0 and 1 only
SmallTimestamps == {0, 1}
Titles == {"", "T"}
Authors == {"", "U"}

\* an optional numeric message field that is absent (undefined)
Undefined == -1

NoVideo == [id |-> "none"]
NoBookmark == [id |-> "none"]
NoUrlId == "none"

Max(a, b) == IF a >= b THEN a ELSE b

\* a ?? b
Nullish(a, b) == IF a = Undefined THEN b ELSE a

EmptyCollection == [v \in VideoIds |-> NoBookmark]

NoRoundTrip == [stage |-> "idle"]

NoRepair == [stage |-> "idle"]

NoRetry == [pc |-> "idle"]

NoCall == [pc |-> "idle"]

NoDropped == [videoId |-> "none"]

NoPeriodic == [tick |-> FALSE, saved |-> {}]

\* a BackgroundManager after construction: saveInterval is null and no
\* listener or interval exists; cleanupIntervals counts the daily intervals
\* and cleanupTick flips at each firing of one of them
NoTimers ==
  [pc |-> "idle", isInitialized |-> FALSE, listening |-> FALSE,
   saveInterval |-> FALSE, cleanupIntervals |-> 0, cleanupTick |-> FALSE]

NoSettings == [autoTrack |-> "none"]
NoBackup == [version |-> "none"]

\* the settings that initialize and validateAndRepairSettings fall back to
DefaultSettings == [autoTrack |-> TRUE, cleanupDays |-> 30]

DefaultStorage == [settings |-> DefaultSettings, backup |-> NoBackup]

\* Map iteration of handleConfirmDelete's for..of loop across its awaits: a
\* deleted key is no longer visited, a key added (or deleted and set again)
\* during the loop is visited
Reiterate(sessions) ==
  { IF c.stage # "save" THEN c
    ELSE [c EXCEPT !.todo =
            { t \in Tabs :
                /\ sessions[t] # NoVideo
                /\ \/ t \in c.todo
                   \/ activeVideos[t] = NoVideo
                   \/ activeVideos[t].id # sessions[t].id }]
    : c \in confirms }

----------------------------------------------------------------------------
(* StorageManager.saveBookmark as an in-flight operation *)

\* a flush that stores the furthest position as the last one
BookmarkOfMaxAsLast(activeVideo) ==
  [id            |-> activeVideo.id,
   url           |-> activeVideo.url,
   title         |-> activeVideo.title,
   author        |-> activeVideo.author,
   lastTimestamp |-> activeVideo.maxTimestamp,
   maxTimestamp  |-> activeVideo.maxTimestamp,
   createdAt     |-> now,
   updatedAt     |-> now]

\* saveVideoState: the bookmark built from a session
BookmarkOf(activeVideo) ==
  [id            |-> activeVideo.id,
   url           |-> activeVideo.url,
   title         |-> activeVideo.title,
   author        |-> activeVideo.author,
   lastTimestamp |-> activeVideo.lastTimestamp,
   maxTimestamp  |-> activeVideo.maxTimestamp,
   createdAt     |-> now,
   updatedAt     |-> now]

\* saveVideoState up to its first await: storageManager.saveBookmark has
\* issued chrome.storage.local.get(null)
SaveOp(activeVideo) ==
  [kind |-> "save", bm |-> BookmarkOf(activeVideo), phase |-> "get",
   coll |-> EmptyCollection]

\* a merge that stamps createdAt as well
SaveMergeStampBoth(coll, bookmark) ==
  [coll EXCEPT ![bookmark.id] = [bookmark EXCEPT !.updatedAt = now, !.createdAt = now]]

\* saveBookmark after getStorage() resolved: bookmarks[bookmark.id] =
\* {...bookmark, updatedAt: Date.now()} on the collection that was read
SaveMerge(coll, bookmark) ==
  [coll EXCEPT ![bookmark.id] = [bookmark EXCEPT !.updatedAt = now]]

\* chrome.storage.local.get(null) of a save resolves
StorageGet(op) ==
  /\ op \in ops
  /\ op.phase = "get"
  /\ op.kind = "save"
  /\ ops' = (ops \ {op}) \cup
            {[op EXCEPT !.phase = "set", !.coll = SaveMerge(bookmarks, op.bm)]}
  /\ roundTrip' = NoRoundTrip
  /\ UNCHANGED <<pureVars, activeVideos, bookmarks, now, confirms, observerVars, pendingIds>>

\* chrome.storage.local.set({bookmarks}) of a save resolves
StorageSet(op) ==
  /\ op \in ops
  /\ op.phase = "set"
  /\ op.kind = "save"
  /\ bookmarks' = op.coll
  /\ ops' = ops \ {op}
  /\ roundTrip' = NoRoundTrip
  /\ UNCHANGED <<pureVars, activeVideos, now, confirms, observerVars, pendingIds>>

----------------------------------------------------------------------------
(* BackgroundManager handlers for tab-scoped messages and tab events *)

\* a session built from the message alone, without the previous session
DetectedVideoUnmerged(tabId, videoId, title, author, lastTimestamp, maxTimestamp, existingVideo) ==
  [id            |-> videoId,
   tabId         |-> tabId,
   url           |-> videoId,
   title         |-> IF title # "" THEN title
                     ELSE IF existingVideo # NoVideo THEN existingVideo.title ELSE "",
   author        |-> IF author # "" THEN author
                     ELSE IF existingVideo # NoVideo THEN existingVideo.author ELSE "",
   lastTimestamp |-> Nullish(lastTimestamp, 0),
   maxTimestamp  |-> Nullish(maxTimestamp, 0),
   pendingDeletion |-> FALSE]

\* handleVideoDetected: the session created or updated from the message
DetectedVideo(tabId, videoId, title, author, lastTimestamp, maxTimestamp, existingVideo) ==
  [id            |-> videoId,
   tabId         |-> tabId,
   url           |-> videoId,
   title         |-> IF title # "" THEN title
                     ELSE IF existingVideo # NoVideo THEN existingVideo.title ELSE "",
   author        |-> IF author # "" THEN author
                     ELSE IF existingVideo # NoVideo THEN existingVideo.author ELSE "",
   lastTimestamp |-> Nullish(lastTimestamp,
                       IF existingVideo # NoVideo THEN existingVideo.lastTimestamp ELSE 0),
   maxTimestamp  |-> Max(Nullish(maxTimestamp, 0),
                       IF existingVideo # NoVideo THEN existingVideo.maxTimestamp ELSE 0),
   pendingDeletion |-> FALSE]

HandleVideoDetected(tabId, videoId, urlVideoId, title, author, lastTimestamp, maxTimestamp) ==
  /\ urlVideoId # NoUrlId
  /\ urlVideoId = videoId
  /\ LET old == activeVideos[tabId]
         evict == old # NoVideo /\ old.id # videoId
         existingVideo == IF evict THEN NoVideo ELSE old
         activeVideo == DetectedVideo(tabId, videoId, title, author,
                                      lastTimestamp, maxTimestamp, existingVideo)
         valid == activeVideo.title # "" /\ activeVideo.author # ""
     IN /\ evict => Cardinality(ops) < MaxOps
        /\ ops' = IF evict THEN ops \cup {SaveOp(old)} ELSE ops
        /\ activeVideos' =
             IF valid THEN [activeVideos EXCEPT ![tabId] = activeVideo]
             ELSE IF evict THEN [activeVideos EXCEPT ![tabId] = NoVideo]
             ELSE activeVideos
  /\ confirms' = Reiterate(activeVideos')
  /\ roundTrip' = NoRoundTrip
  /\ UNCHANGED <<pureVars, bookmarks, now, observerVars, pendingIds>>

\* a VIDEO_DETECTED whose url does not carry the message's videoId is dropped
HandleVideoDetectedMismatch(tabId, videoId, urlVideoId) ==
  /\ urlVideoId = NoUrlId \/ urlVideoId # videoId
  /\ UNCHANGED vars

\* a close that evicts the session without flushing it
HandleVideoClosedUnsaved(tabId, videoId) ==
  /\ activeVideos[tabId] # NoVideo
  /\ activeVideos[tabId].id = videoId
  /\ activeVideos' = [activeVideos EXCEPT ![tabId] = NoVideo]
  /\ confirms' = Reiterate(activeVideos')
  /\ roundTrip' = NoRoundTrip
  /\ UNCHANGED <<pureVars, bookmarks, ops, now, observerVars, pendingIds>>

HandleVideoClosed(tabId, videoId) ==
  /\ activeVideos[tabId] # NoVideo
  /\ activeVideos[tabId].id = videoId
  /\ Cardinality(ops) < MaxOps
  /\ ops' = ops \cup {SaveOp(activeVideos[tabId])}
  /\ activeVideos' = [activeVideos EXCEPT ![tabId] = NoVideo]
  /\ confirms' = Reiterate(activeVideos')
  /\ roundTrip' = NoRoundTrip
  /\ UNCHANGED <<pureVars, bookmarks, now, observerVars, pendingIds>>

\* the first listing's rule: the max hint only ever raises maxTimestamp
UpdatedVideoKeepMax(activeVideo, timestamp, isMaxTimestamp) ==
  [activeVideo EXCEPT
     !.lastTimestamp = timestamp,
     !.maxTimestamp = Max(activeVideo.maxTimestamp, timestamp)]

\* handleUpdateTimestamp: the session after the update
UpdatedVideo(activeVideo, timestamp, isMaxTimestamp) ==
  [activeVideo EXCEPT
     !.lastTimestamp = timestamp,
     !.maxTimestamp = IF isMaxTimestamp \/ timestamp > activeVideo.maxTimestamp
                      THEN timestamp ELSE activeVideo.maxTimestamp]

HandleUpdateTimestamp(tabId, videoId, timestamp, isMaxTimestamp) ==
  /\ activeVideos[tabId] # NoVideo
  /\ activeVideos[tabId].id = videoId
  /\ Cardinality(ops) < MaxOps
  /\ LET activeVideo == UpdatedVideo(activeVideos[tabId], timestamp, isMaxTimestamp)
     IN /\ activeVideos' = [activeVideos EXCEPT ![tabId] = activeVideo]
        /\ ops' = ops \cup {SaveOp(activeVideo)}
  /\ roundTrip' = NoRoundTrip
  /\ UNCHANGED <<pureVars, bookmarks, now, confirms, observerVars, pendingIds>>

\* a handler that applies the update to whatever session the tab has
HandleUpdateTimestampUnchecked(tabId, videoId) ==
  /\ activeVideos[tabId] = NoVideo \/ activeVideos[tabId].id # videoId
  /\ dropped' = [tabId |-> tabId, videoId |-> videoId, session |-> activeVideos[tabId]]
  /\ IF activeVideos[tabId] = NoVideo
     THEN UNCHANGED <<activeVideos, ops>>
     ELSE /\ Cardinality(ops) < MaxOps
          /\ activeVideos' = [activeVideos EXCEPT ![tabId] = UpdatedVideo(@, 0, FALSE)]
          /\ ops' = ops \cup {SaveOp(activeVideos'[tabId])}
  /\ UNCHANGED <<repair, retry, call, storage, periodic, timers, handled, bookmarks, now, confirms,
                 observerVars, pendingIds, roundTrip>>

\* early return of handleUpdateTimestamp: no session, or another video's
HandleUpdateTimestampStale(tabId, videoId) ==
  /\ activeVideos[tabId] = NoVideo \/ activeVideos[tabId].id # videoId
  /\ dropped' = [tabId |-> tabId, videoId |-> videoId, session |-> activeVideos[tabId]]
  /\ UNCHANGED <<repair, retry, call, storage, periodic, timers, handled, activeVideos, bookmarks,
                 ops, now, confirms, observerVars, pendingIds, roundTrip>>

\* a tab-removed handler that clears the whole registry
HandleTabRemovedEveryTab(tabId) ==
  /\ activeVideos[tabId] # NoVideo
  /\ Cardinality(ops) < MaxOps
  /\ ops' = ops \cup {SaveOp(activeVideos[tabId])}
  /\ activeVideos' = [t \in Tabs |-> NoVideo]
  /\ confirms' = Reiterate(activeVideos')
  /\ roundTrip' = NoRoundTrip
  /\ UNCHANGED <<pureVars, bookmarks, now, observerVars, pendingIds>>

HandleTabRemoved(tabId) ==
  /\ activeVideos[tabId] # NoVideo
  /\ Cardinality(ops) < MaxOps
  /\ ops' = ops \cup {SaveOp(activeVideos[tabId])}
  /\ activeVideos' = [activeVideos EXCEPT ![tabId] = NoVideo]
  /\ confirms' = Reiterate(activeVideos')
  /\ roundTrip' = NoRoundTrip
  /\ UNCHANGED <<pureVars, bookmarks, now, observerVars, pendingIds>>

\* handleTabUpdated with changeInfo.status === 'loading'
HandleTabUpdated(tabId) ==
  /\ activeVideos[tabId] # NoVideo
  /\ Cardinality(ops) < MaxOps
  /\ ops' = ops \cup {SaveOp(activeVideos[tabId])}
  /\ activeVideos' = [activeVideos EXCEPT ![tabId] = NoVideo]
  /\ confirms' = Reiterate(activeVideos')
  /\ roundTrip' = NoRoundTrip
  /\ UNCHANGED <<pureVars, bookmarks, now, observerVars, pendingIds>>

\* a periodic save that skips no session
UnsavedTabsNone(sessions) == { t \in Tabs : sessions[t] # NoVideo }

\* the sessions the periodic save passes to saveVideoState
UnsavedTabs(sessions) ==
  { t \in Tabs : sessions[t] # NoVideo /\ ~sessions[t].pendingDeletion }

\* the callback of startPeriodicSaves' setInterval: every call of
\* saveVideoState runs to its first await
PeriodicSave ==
  LET saved == UnsavedTabs(activeVideos)
      started == { SaveOp(activeVideos[t]) : t \in saved }
  IN /\ Cardinality(ops \cup started) <= MaxOps
     /\ ops' = ops \cup started
     /\ periodic' = [tick |-> ~periodic.tick, saved |-> saved]
     /\ roundTrip' = NoRoundTrip
     /\ UNCHANGED <<timers, repair, retry, call, storage, handled, dropped, activeVideos, bookmarks, now,
                    confirms, observerVars, pendingIds>>

----------------------------------------------------------------------------
(* BackgroundManager handlers of the deletion messages.  Each handler first  *)
(* awaits chrome.tabs.query; the action is the handler from the moment that  *)
(* query resolves.                                                           *)

Msg(type, videoId) == [type |-> type, videoId |-> videoId]

NoMessages == [bg |-> <<>>, popup |-> <<>>, tabs |-> [t \in Tabs |-> <<>>]]

\* chrome.tabs.sendMessage to every tab whose content script listens
Broadcast(q, type, videoId) ==
  [q EXCEPT !.tabs = [t \in Tabs |->
                        IF controls[t].listening
                        THEN Append(q.tabs[t], Msg(type, videoId))
                        ELSE q.tabs[t]]]

\* chrome.runtime.sendMessage from the background reaches an open popup
ToPopup(q, type, videoId) ==
  IF popup.open THEN [q EXCEPT !.popup = Append(@, Msg(type, videoId))] ELSE q

\* the message being handled: the head of the background's queue when
\* queued, else one that arrives from outside the model
Arrived(type, videoId, queued) ==
  queued => /\ msgs.bg # <<>>
            /\ Head(msgs.bg) = Msg(type, videoId)

Received(queued) == IF queued THEN [msgs EXCEPT !.bg = Tail(@)] ELSE msgs

\* room in the queue of every listening tab
TabsRoom == \A t \in Tabs : Len(msgs.tabs[t]) < MaxQueue

\* an initiate that drops the sessions at once instead of flagging them
MarkedPendingDropped(sessions, videoId) ==
  [t \in Tabs |->
     IF sessions[t] # NoVideo /\ sessions[t].id = videoId
     THEN NoVideo ELSE sessions[t]]

\* handleInitiateDelete: activeVideo.pendingDeletion = true for the video
MarkedPending(sessions, videoId) ==
  [t \in Tabs |->
     IF sessions[t] # NoVideo /\ sessions[t].id = videoId
     THEN [sessions[t] EXCEPT !.pendingDeletion = TRUE] ELSE sessions[t]]

\* handleUndoDelete: delete activeVideo.pendingDeletion for the video
UndonePending(sessions, videoId) ==
  [t \in Tabs |->
     IF sessions[t] # NoVideo /\ sessions[t].id = videoId
     THEN [sessions[t] EXCEPT !.pendingDeletion = FALSE] ELSE sessions[t]]

HandleInitiateDelete(videoId, queued) ==
  /\ Arrived("INITIATE_DELETE", videoId, queued)
  /\ TabsRoom
  /\ activeVideos' = MarkedPending(activeVideos, videoId)
  /\ msgs' = Broadcast(Received(queued), "INITIATE_DELETE", videoId)
  /\ pendingIds' = pendingIds \cup {videoId}
  /\ handled' = IF videoId \in pendingIds THEN handled ELSE handled \ {videoId}
  /\ roundTrip' = [stage |-> "initiated", videoId |-> videoId,
                   sessions |-> activeVideos, stored |-> bookmarks]
  /\ UNCHANGED <<methodVars, bookmarks, ops, now, confirms, popup, controls, undone>>

HandleUndoDelete(videoId, queued) ==
  /\ Arrived("UNDO_DELETE", videoId, queued)
  /\ TabsRoom
  /\ activeVideos' = UndonePending(activeVideos, videoId)
  /\ msgs' = Broadcast(Received(queued), "UNDO_DELETE", videoId)
  /\ pendingIds' = pendingIds \ {videoId}
  /\ handled' = handled \ {videoId}
  /\ roundTrip' = IF roundTrip.stage = "initiated" /\ roundTrip.videoId = videoId
                  THEN [roundTrip EXCEPT !.stage = "undone"]
                  ELSE NoRoundTrip
  /\ UNCHANGED <<methodVars, bookmarks, ops, now, confirms, popup, controls, undone>>

\* deleteBookmark after getStorage() resolved: delete bookmarks[videoId]
DeleteMerge(coll, videoId) == [coll EXCEPT ![videoId] = NoBookmark]

\* a loop that treats every session as a session of the video
ConfirmAdvanceAnySession(c, sessions) ==
  LET matching == { t \in c.todo : sessions[t] # NoVideo }
  IN IF matching # {}
     THEN { [c EXCEPT !.stage = "save", !.tab = t, !.todo = matching \ {t},
                      !.phase = "get", !.bm = BookmarkOf(sessions[t])] : t \in matching }
     ELSE { [c EXCEPT !.stage = "delete", !.tab = 0, !.todo = {},
                      !.phase = "get", !.bm = NoBookmark, !.attempt = 0] }

\* the for..of loop of handleConfirmDelete runs on to its next await: the
\* saveVideoState of the next session of the video, or deleteBookmark
ConfirmAdvance(c, sessions) ==
  LET matching == { t \in c.todo : sessions[t] # NoVideo /\ sessions[t].id = c.videoId }
  IN IF matching # {}
     THEN { [c EXCEPT !.stage = "save", !.tab = t, !.todo = matching \ {t},
                      !.phase = "get", !.bm = BookmarkOf(sessions[t])] : t \in matching }
     ELSE { [c EXCEPT !.stage = "delete", !.tab = 0, !.todo = {},
                      !.phase = "get", !.bm = NoBookmark, !.attempt = 0] }

HandleConfirmDelete(videoId, queued) ==
  /\ Arrived("CONFIRM_DELETE", videoId, queued)
  /\ Cardinality(confirms) < MaxConfirms
  /\ \E c \in ConfirmAdvance(
                [videoId |-> videoId, stage |-> "save", tab |-> 0,
                 todo |-> {t \in Tabs : activeVideos[t] # NoVideo},
                 phase |-> "get", bm |-> NoBookmark, coll |-> EmptyCollection,
                 attempt |-> 0,
                 wasPending |-> videoId \in pendingIds,
                 wasDeleted |-> /\ bookmarks[videoId] = NoBookmark
                                /\ \A t \in Tabs : activeVideos[t] = NoVideo
                                                   \/ activeVideos[t].id # videoId],
                activeVideos) :
       confirms' = confirms \cup {c}
  /\ msgs' = Received(queued)
  /\ handled' = handled \cup {videoId}
  /\ roundTrip' = NoRoundTrip
  /\ UNCHANGED <<methodVars, activeVideos, bookmarks, ops, now, popup, controls, undone,
                 pendingIds>>

\* the handler's saveVideoState: chrome.storage.local.get(null) resolves
ConfirmSaveGet(c) ==
  /\ c \in confirms
  /\ c.stage = "save"
  /\ c.phase = "get"
  /\ confirms' = (confirms \ {c}) \cup
                 {[c EXCEPT !.phase = "set", !.coll = SaveMerge(bookmarks, c.bm)]}
  /\ roundTrip' = NoRoundTrip
  /\ UNCHANGED <<pureVars, activeVideos, bookmarks, ops, now, observerVars, pendingIds>>

\* the handler's saveVideoState completes: activeVideos.delete(tabId), and the
\* loop runs on
ConfirmSaveSet(c) ==
  /\ c \in confirms
  /\ c.stage = "save"
  /\ c.phase = "set"
  /\ bookmarks' = c.coll
  /\ activeVideos' = [activeVideos EXCEPT ![c.tab] = NoVideo]
  /\ \E d \in ConfirmAdvance([c EXCEPT !.todo = c.todo \ {c.tab}], activeVideos') :
       confirms' = (Reiterate(activeVideos') \ {[c EXCEPT !.todo = c.todo \ {c.tab}]})
                   \cup {d}
  /\ roundTrip' = NoRoundTrip
  /\ UNCHANGED <<pureVars, ops, now, observerVars, pendingIds>>

\* the handler's deleteBookmark: getStorage() resolves and the bookmark is
\* absent; withRetry catches the NOT_FOUND error and tries again
ConfirmDeleteNotFound(c) ==
  /\ c \in confirms
  /\ c.stage = "delete"
  /\ c.phase = "get"
  /\ bookmarks[c.videoId] = NoBookmark
  /\ IF c.attempt + 1 = StorageMaxAttempts
     THEN /\ confirms' = confirms \ {c}
          /\ pendingIds' = pendingIds \ {c.videoId}
     ELSE /\ confirms' = (confirms \ {c}) \cup {[c EXCEPT !.attempt = c.attempt + 1]}
          /\ UNCHANGED pendingIds
  /\ roundTrip' = NoRoundTrip
  /\ UNCHANGED <<pureVars, activeVideos, bookmarks, ops, now, observerVars>>

\* the handler's deleteBookmark: getStorage() resolves and the bookmark is there
ConfirmDeleteGet(c) ==
  /\ c \in confirms
  /\ c.stage = "delete"
  /\ c.phase = "get"
  /\ bookmarks[c.videoId] # NoBookmark
  /\ confirms' = (confirms \ {c}) \cup
                 {[c EXCEPT !.phase = "set", !.coll = DeleteMerge(bookmarks, c.videoId)]}
  /\ roundTrip' = NoRoundTrip
  /\ UNCHANGED <<pureVars, activeVideos, bookmarks, ops, now, observerVars, pendingIds>>

\* the handler's deleteBookmark completes: CONFIRM_DELETE goes to the tabs and
\* to the popup
ConfirmDeleteSet(c) ==
  /\ c \in confirms
  /\ c.stage = "delete"
  /\ c.phase = "set"
  /\ TabsRoom
  /\ Len(msgs.popup) < MaxQueue
  /\ bookmarks' = c.coll
  /\ confirms' = confirms \ {c}
  /\ msgs' = ToPopup(Broadcast(msgs, "CONFIRM_DELETE", c.videoId),
                     "CONFIRM_DELETE", c.videoId)
  /\ pendingIds' = pendingIds \ {c.videoId}
  /\ roundTrip' = NoRoundTrip
  /\ UNCHANGED <<pureVars, activeVideos, ops, now, popup, controls, undone>>

ConfirmStep ==
  \/ \E c \in confirms : ConfirmSaveGet(c)
  \/ \E c \in confirms : ConfirmSaveSet(c)
  \/ \E c \in confirms : ConfirmDeleteNotFound(c)
  \/ \E c \in confirms : ConfirmDeleteGet(c)
  \/ \E c \in confirms : ConfirmDeleteSet(c)

----------------------------------------------------------------------------
(* The observers of a deletion: the popup's BookmarkList and each tab's      *)
(* VideoControls, while the popup stays open.  A timer that is armed may     *)
(* fire at any later step.                                                   *)

backgroundVars == <<activeVideos, bookmarks, ops, now, confirms, pendingIds>>

NoControls == [videoId |-> "none", listening |-> FALSE,
               isActive |-> FALSE, undoTimer |-> FALSE]

ClosedPopup == [open |-> FALSE, bookmarks |-> {}, deleting |-> {}, timers |-> {}]

\* chrome.runtime.sendMessage from the popup reaches the background
FromPopup(type, videoId) == [msgs EXCEPT !.bg = Append(@, Msg(type, videoId))]

\* chrome.runtime.sendMessage from a content script reaches the background
\* and the popup's listener
FromTab(type, videoId) == ToPopup(FromPopup(type, videoId), type, videoId)

PopupRoom == Len(msgs.bg) < MaxQueue

TabRoom == Len(msgs.bg) < MaxQueue /\ Len(msgs.popup) < MaxQueue

\* BookmarkList mounts: loadBookmarks and chrome.runtime.onMessage.addListener
PopupOpen ==
  /\ ~popup.open
  /\ popup' = [open |-> TRUE,
               bookmarks |-> {v \in VideoIds : bookmarks[v] # NoBookmark},
               deleting |-> {}, timers |-> {}]
  /\ roundTrip' = NoRoundTrip
  /\ UNCHANGED <<pureVars, msgs, controls, undone, backgroundVars>>

\* BookmarkList.handleInitiateDelete
PopupInitiateDelete(id) ==
  /\ popup.open
  /\ id \in popup.bookmarks
  /\ PopupRoom
  /\ popup' = [popup EXCEPT !.deleting = @ \cup {id}, !.timers = @ \cup {id}]
  /\ msgs' = FromPopup("INITIATE_DELETE", id)
  /\ undone' = undone \ {id}
  /\ roundTrip' = NoRoundTrip
  /\ UNCHANGED <<pureVars, controls, backgroundVars>>

\* BookmarkList.handleUndo, from the UNDO button of a bookmark being deleted
PopupUndo(id) ==
  /\ popup.open
  /\ id \in popup.bookmarks
  /\ id \in popup.deleting
  /\ PopupRoom
  /\ popup' = [popup EXCEPT !.deleting = @ \ {id}, !.timers = @ \ {id}]
  /\ msgs' = FromPopup("UNDO_DELETE", id)
  /\ undone' = IF id \in popup.timers THEN undone \cup {id} ELSE undone
  /\ roundTrip' = NoRoundTrip
  /\ UNCHANGED <<pureVars, controls, backgroundVars>>

\* the popup's deletionTimeout fires
PopupTimeout(id) ==
  /\ popup.open
  /\ id \in popup.timers
  /\ PopupRoom
  /\ popup' = [popup EXCEPT !.timers = @ \ {id}]
  /\ msgs' = FromPopup("CONFIRM_DELETE", id)
  /\ roundTrip' = NoRoundTrip
  /\ UNCHANGED <<pureVars, controls, undone, backgroundVars>>

\* the popup's messageListener
PopupReceive ==
  /\ popup.open
  /\ msgs.popup # <<>>
  /\ LET message == Head(msgs.popup)
     IN popup' = CASE message.type = "CONFIRM_DELETE" ->
                        [popup EXCEPT !.bookmarks = @ \ {message.videoId},
                                      !.deleting = @ \ {message.videoId}]
                   [] message.type = "UNDO_DELETE" ->
                        [popup EXCEPT !.deleting = @ \ {message.videoId}]
                   [] OTHER -> popup
  /\ msgs' = [msgs EXCEPT !.popup = Tail(@)]
  /\ roundTrip' = NoRoundTrip
  /\ UNCHANGED <<pureVars, controls, undone, backgroundVars>>

\* BookmarkList unmounts: its timers are cleared and its listener is removed
PopupClose ==
  /\ popup.open
  /\ popup' = ClosedPopup
  /\ msgs' = [msgs EXCEPT !.popup = <<>>]
  /\ roundTrip' = NoRoundTrip
  /\ UNCHANGED <<pureVars, controls, undone, backgroundVars>>

\* VideoControls.destroy: the timers are cleared and videoId becomes null;
\* the message listener stays and ignores what it receives
ControlsDestroy(t) ==
  /\ controls[t].videoId # "none"
  /\ controls' = [controls EXCEPT ![t] = [NoControls EXCEPT !.listening = TRUE]]
  /\ roundTrip' = NoRoundTrip
  /\ UNCHANGED <<pureVars, msgs, popup, undone, backgroundVars>>

\* VideoControls.handleButtonClick on an active bookmark: initiateDelete
ControlsInitiateDelete(t) ==
  /\ controls[t].videoId # "none"
  /\ controls[t].isActive
  /\ ~controls[t].undoTimer
  /\ TabRoom
  /\ controls' = [controls EXCEPT ![t].undoTimer = TRUE]
  /\ msgs' = FromTab("INITIATE_DELETE", controls[t].videoId)
  /\ undone' = undone \ {controls[t].videoId}
  /\ roundTrip' = NoRoundTrip
  /\ UNCHANGED <<pureVars, popup, backgroundVars>>

\* VideoControls.handleUndo, from the undo button shown during the countdown
ControlsUndo(t) ==
  /\ controls[t].videoId # "none"
  /\ controls[t].undoTimer
  /\ TabRoom
  /\ controls' = [controls EXCEPT ![t].undoTimer = FALSE, ![t].isActive = TRUE]
  /\ msgs' = FromTab("UNDO_DELETE", controls[t].videoId)
  /\ undone' = undone \cup {controls[t].videoId}
  /\ roundTrip' = NoRoundTrip
  /\ UNCHANGED <<pureVars, popup, backgroundVars>>

\* the tab's undoTimer fires: clearTimers and confirmDelete
ControlsTimeout(t) ==
  /\ controls[t].videoId # "none"
  /\ controls[t].undoTimer
  /\ TabRoom
  /\ controls' = [controls EXCEPT ![t].undoTimer = FALSE, ![t].isActive = FALSE]
  /\ msgs' = FromTab("CONFIRM_DELETE", controls[t].videoId)
  /\ roundTrip' = NoRoundTrip
  /\ UNCHANGED <<pureVars, popup, undone, backgroundVars>>

\* the listener of VideoControls.setupMessageListener
ControlsReceive(t) ==
  /\ msgs.tabs[t] # <<>>
  /\ LET message == Head(msgs.tabs[t])
         mine == controls[t].videoId # "none" /\ message.videoId = controls[t].videoId
     IN controls' = CASE mine /\ message.type = "INITIATE_DELETE" ->
                           [controls EXCEPT ![t].undoTimer = TRUE]
                      [] mine /\ message.type = "UNDO_DELETE" ->
                           [controls EXCEPT ![t].undoTimer = FALSE, ![t].isActive = TRUE]
                      [] mine /\ message.type = "CONFIRM_DELETE" ->
                           [controls EXCEPT ![t].undoTimer = FALSE, ![t].isActive = FALSE]
                      [] OTHER -> controls
  /\ msgs' = [msgs EXCEPT !.tabs[t] = Tail(@)]
  /\ roundTrip' = NoRoundTrip
  /\ UNCHANGED <<pureVars, popup, undone, backgroundVars>>

----------------------------------------------------------------------------
(* StorageRecovery.validateAndRepairBookmarks.  A stored value is any        *)
(* JavaScript value: a field holds a number, NaN, a string that is not a     *)
(* numeral, or is missing.                                                   *)

Num(n) == [t |-> "number", v |-> n]
NaN == [t |-> "NaN", v |-> 0]
Str == [t |-> "string", v |-> 0]
Missing == [t |-> "undefined", v |-> 0]

JStr(x) == [t |-> "string", s |-> x]
NoString == [t |-> "undefined", s |-> ""]

\* typeof x === 'number'
TypeofNumber(x) == x.t \in {"number", "NaN"}

TypeofString(x) == x.t = "string"

\* a >= b, a <= b, a > b, a < b on values that are compared as numbers: a
\* comparison with NaN, or with what converts to NaN, is false
JsGe(a, b) == a.t = "number" /\ b.t = "number" /\ a.v >= b.v
JsLe(a, b) == a.t = "number" /\ b.t = "number" /\ a.v <= b.v
JsGt(a, b) == a.t = "number" /\ b.t = "number" /\ a.v > b.v
JsLt(a, b) == a.t = "number" /\ b.t = "number" /\ a.v < b.v

\* x || 0
OrZero(x) == IF x.t \in {"undefined", "NaN"} \/ x = Num(0) THEN Num(0) ELSE x

MathMax(a, b) ==
  IF a.t = "number" /\ b.t = "number" THEN Num(Max(a.v, b.v)) ELSE NaN

MathMin(a, b) ==
  IF a.t = "number" /\ b.t = "number" THEN Num(IF a.v <= b.v THEN a.v ELSE b.v) ELSE NaN

NoRecord == [kind |-> "none"]
NullValue == [kind |-> "null"]
Primitive == [kind |-> "primitive"]

\* isValidBookmark on a value that is not null
IsValidBookmark(bookmark) ==
  /\ bookmark.kind = "object"
  /\ TypeofString(bookmark.id)
  /\ TypeofString(bookmark.url)
  /\ TypeofString(bookmark.title)
  /\ TypeofString(bookmark.author)
  /\ TypeofNumber(bookmark.lastTimestamp)
  /\ TypeofNumber(bookmark.maxTimestamp)
  /\ TypeofNumber(bookmark.createdAt)
  /\ TypeofNumber(bookmark.updatedAt)
  /\ JsGe(bookmark.lastTimestamp, Num(0))
  /\ JsGe(bookmark.maxTimestamp, bookmark.lastTimestamp)
  /\ JsLe(bookmark.createdAt, bookmark.updatedAt)
  /\ JsLe(bookmark.updatedAt, Num(now))

\* the two assignments that follow the literal in repairBookmark
EnsureTimestamps(repaired) ==
  LET r == IF JsLt(repaired.maxTimestamp, repaired.lastTimestamp)
           THEN [repaired EXCEPT !.maxTimestamp = repaired.lastTimestamp]
           ELSE repaired
  IN IF JsGt(r.createdAt, r.updatedAt) THEN [r EXCEPT !.createdAt = r.updatedAt] ELSE r

\* repairBookmark; NoRecord stands for its null
RepairBookmark(id, bookmark) ==
  IF bookmark.kind # "object" THEN NoRecord
  ELSE EnsureTimestamps(
         [kind |-> "object",
          id |-> IF TypeofString(bookmark.id) THEN bookmark.id ELSE JStr(id),
          url |-> IF TypeofString(bookmark.url) THEN bookmark.url ELSE JStr(id),
          title |-> IF TypeofString(bookmark.title) THEN bookmark.title
                    ELSE JStr("Unknown Title"),
          author |-> IF TypeofString(bookmark.author) THEN bookmark.author
                     ELSE JStr("Unknown Author"),
          lastTimestamp |-> IF TypeofNumber(bookmark.lastTimestamp)
                               /\ JsGe(bookmark.lastTimestamp, Num(0))
                            THEN bookmark.lastTimestamp ELSE Num(0),
          maxTimestamp |-> IF TypeofNumber(bookmark.maxTimestamp)
                              /\ JsGe(bookmark.maxTimestamp, Num(0))
                           THEN MathMax(bookmark.maxTimestamp, OrZero(bookmark.lastTimestamp))
                           ELSE OrZero(bookmark.lastTimestamp),
          createdAt |-> IF TypeofNumber(bookmark.createdAt)
                           /\ JsGt(bookmark.createdAt, Num(0))
                        THEN MathMin(bookmark.createdAt, Num(now)) ELSE Num(now),
          updatedAt |-> IF TypeofNumber(bookmark.updatedAt)
                           /\ JsGt(bookmark.updatedAt, Num(0))
                        THEN MathMin(bookmark.updatedAt, Num(now)) ELSE Num(now)])

\* the body of the loop of validateAndRepairBookmarks for one entry: the
\* record put under the id, or NoRecord when none is.  isValidBookmark(null)
\* throws a TypeError, which the loop catches.
RepairedEntry(id, bookmark) ==
  IF bookmark.kind = "null" THEN NoRecord
  ELSE IF IsValidBookmark(bookmark) THEN bookmark
  ELSE RepairBookmark(id, bookmark)

ValidateAndRepairBookmarks(stored) ==
  /\ repair.stage = "idle"
  /\ repair' = [stage |-> "done", stored |-> stored, at |-> now,
                repaired |-> [id \in DOMAIN stored |-> RepairedEntry(id, stored[id])]]
  /\ UNCHANGED <<retry, call, storage, periodic, timers, handled, dropped, activeVideos, bookmarks, ops, now,
                 confirms, observerVars, pendingIds, roundTrip>>

----------------------------------------------------------------------------
(* withRetry(operation, fn, config).  retry.attempt and retry.lastError are  *)
(* the function's locals; calls counts the invocations of fn, errors lists   *)
(* the error of each failed attempt and slept the delay of each sleep, all   *)
(* three as history.                                                         *)

UnknownError == [kind |-> "unknown", call |-> 0]
TimeoutError == [kind |-> "timeout", call |-> 0]

\* the error with which the k-th invocation of fn rejects
FnError(k) == [kind |-> "fn", call |-> k]

\* Math.pow(base, exponent) for a natural exponent
Pow(base, exponent) ==
  LET pw[e \in 0..exponent] == IF e = 0 THEN 1 ELSE base * pw[e - 1]
  IN pw[exponent]

Min(a, b) == IF a <= b THEN a ELSE b

\* a delay without the cap of maxDelay
CalculateDelayUncapped(attempt, config) ==
  config.initialDelay * Pow(config.backoffFactor, attempt)

\* calculateDelay
CalculateDelay(attempt, config) ==
  Min(config.initialDelay * Pow(config.backoffFactor, attempt), config.maxDelay)

\* a catch block that keeps the first error
CaughtKeepFirst(r, error) ==
  LET attempt == r.attempt + 1
      lastError == IF r.lastError = UnknownError THEN error ELSE r.lastError
  IN [r EXCEPT !.lastError = lastError,
               !.attempt = attempt,
               !.errors = Append(r.errors, error),
               !.slept = IF attempt = r.maxAttempts THEN r.slept
                         ELSE Append(r.slept, CalculateDelay(attempt - 1, r.config)),
               !.pc = IF attempt = r.maxAttempts THEN "thrown" ELSE "sleep",
               !.thrown = IF attempt = r.maxAttempts
                          THEN [operation |-> r.operation, attempts |-> attempt,
                                lastError |-> lastError]
                          ELSE r.thrown]

\* the catch block, and the throw that follows the loop when this was the
\* last attempt
Caught(r, error) ==
  LET attempt == r.attempt + 1
  IN [r EXCEPT !.lastError = error,
               !.attempt = attempt,
               !.errors = Append(r.errors, error),
               !.slept = IF attempt = r.maxAttempts THEN r.slept
                         ELSE Append(r.slept, CalculateDelay(attempt - 1, r.config)),
               !.pc = IF attempt = r.maxAttempts THEN "thrown" ELSE "sleep",
               !.thrown = IF attempt = r.maxAttempts
                          THEN [operation |-> r.operation, attempts |-> attempt,
                                lastError |-> error]
                          ELSE r.thrown]

RetryUnchanged ==
  UNCHANGED <<repair, call, storage, periodic, timers, handled, dropped, activeVideos, bookmarks, ops, now,
              confirms, observerVars, pendingIds, roundTrip>>

\* withRetry is called and runs to its first await, or to its throw when the
\* loop is not entered
WithRetry(operation, maxAttempts, hasTimeout, config) ==
  /\ retry.pc = "idle"
  /\ retry' = [pc |-> IF 0 < maxAttempts THEN "attempt" ELSE "thrown",
               operation |-> operation, maxAttempts |-> maxAttempts,
               hasTimeout |-> hasTimeout, timedOut |-> FALSE,
               config |-> config, slept |-> <<>>,
               attempt |-> 0, lastError |-> UnknownError,
               calls |-> IF 0 < maxAttempts THEN 1 ELSE 0,
               errors |-> <<>>,
               thrown |-> [operation |-> operation, attempts |-> 0,
                           lastError |-> UnknownError]]
  /\ RetryUnchanged

\* the promise of fn() fulfils before the race is settled: return result
AttemptFulfils ==
  /\ retry.pc = "attempt"
  /\ retry' = [retry EXCEPT !.pc = "returned"]
  /\ RetryUnchanged

\* the promise of fn() rejects before the race is settled
AttemptRejects ==
  /\ retry.pc = "attempt"
  /\ retry' = Caught(retry, FnError(retry.calls))
  /\ RetryUnchanged

\* the setTimeout of timeoutPromise fires
TimeoutFires ==
  /\ retry.pc \in {"attempt", "sleep"}
  /\ retry.hasTimeout
  /\ ~retry.timedOut
  /\ retry' = [retry EXCEPT !.timedOut = TRUE]
  /\ RetryUnchanged

\* the rejected timeoutPromise settles the race
RaceTimesOut ==
  /\ retry.pc = "attempt"
  /\ retry.timedOut
  /\ retry' = Caught(retry, TimeoutError)
  /\ RetryUnchanged

\* sleep(delay) resolves and the loop invokes fn again
SleepEnds ==
  /\ retry.pc = "sleep"
  /\ retry' = [retry EXCEPT !.pc = "attempt", !.calls = retry.calls + 1]
  /\ RetryUnchanged

----------------------------------------------------------------------------
\* the popup is closed and no tab has set up its controls
----------------------------------------------------------------------------
(* One call of a StorageManager method.  `wrapped` tells the two listings of *)
(* the class apart: TRUE is the one whose methods run their body under       *)
(* withRetry (NotificationManager.tsx), FALSE the one without (part_004).    *)
(* The record holds the position of the call (get: getStorage() is awaited,  *)
(* set: chrome.storage.local.set is awaited, sleep: withRetry sleeps), the   *)
(* locals, and as history the collection stored when the call was made and   *)
(* the last error that the body threw.                                       *)

NotFound == [class |-> "StorageError", type |-> "NOT_FOUND"]
OperationFailed == [class |-> "StorageError", type |-> "OPERATION_FAILED"]
\* what a rejected chrome.storage.local call throws
IoError == [class |-> "Error", type |-> "none"]
\* RetryError extends Error
RetryErrorOf(error) == [class |-> "RetryError", type |-> "none"]

\* the catch block of getBookmark and deleteBookmark; the one of
\* cleanupOldBookmarks wraps every error
MethodCatch(c, error) ==
  [c EXCEPT !.pc = "threw",
            !.error = IF error.class = "StorageError" /\ c.method # "cleanupOldBookmarks"
                      THEN error
                      ELSE OperationFailed]

\* the body of the method throws: under withRetry the attempt is counted and
\* the body runs again after a sleep unless it was the last attempt
FnThrows(c, error) ==
  LET thrown == [c EXCEPT !.lastError = error]
  IN IF c.wrapped
     THEN IF c.attempt + 1 = StorageMaxAttempts
          THEN MethodCatch([thrown EXCEPT !.attempt = c.attempt + 1], RetryErrorOf(error))
          ELSE [thrown EXCEPT !.attempt = c.attempt + 1, !.pc = "sleep"]
     ELSE MethodCatch(thrown, error)

NewCall(method, videoId, cleanupDays, wrapped) ==
  [method |-> method, videoId |-> videoId, cleanupDays |-> cleanupDays,
   wrapped |-> wrapped, pc |-> "get", attempt |-> 0, coll |-> EmptyCollection,
   cutoffDate |-> 0, before |-> bookmarks, value |-> NoBookmark,
   lastError |-> IoError, error |-> IoError]

CallUnchanged ==
  /\ roundTrip' = NoRoundTrip
  /\ UNCHANGED <<repair, retry, storage, periodic, timers, handled, dropped, backgroundVars, observerVars>>

\* a caller enters getBookmark(videoId) after its earlier call has ended
GetBookmark(videoId, wrapped) ==
  /\ call.pc \in {"idle", "returned", "threw"}
  /\ call' = NewCall("getBookmark", videoId, 0, wrapped)
  /\ CallUnchanged

\* a caller enters deleteBookmark(videoId)
DeleteBookmark(videoId, wrapped) ==
  /\ call.pc \in {"idle", "returned", "threw"}
  /\ call' = NewCall("deleteBookmark", videoId, 0, wrapped)
  /\ CallUnchanged

\* cleanupOldBookmarks: the entries that pass the filter
KeptByCleanup(coll, cutoffDate) ==
  [v \in VideoIds |->
     IF coll[v] # NoBookmark /\ coll[v].updatedAt > cutoffDate THEN coll[v] ELSE NoBookmark]

\* a caller enters cleanupOldBookmarks(); the stored settings hold cleanupDays
\* (0 stands for a missing or zero value) and the clock counts days
CleanupOldBookmarks(cleanupDays, wrapped) ==
  /\ call.pc \in {"idle", "returned", "threw"}
  /\ call' = NewCall("cleanupOldBookmarks", "none", cleanupDays, wrapped)
  /\ CallUnchanged

\* getStorage() resolves and the body runs up to its next await or its end
CallGetResolves ==
  /\ call.pc = "get"
  /\ call' =
       CASE call.method = "getBookmark" ->
              IF bookmarks[call.videoId] = NoBookmark
              THEN FnThrows(call, NotFound)
              ELSE [call EXCEPT !.pc = "returned", !.value = bookmarks[call.videoId]]
         [] call.method = "deleteBookmark" ->
              IF bookmarks[call.videoId] = NoBookmark
              THEN FnThrows(call, NotFound)
              ELSE [call EXCEPT !.pc = "set",
                                !.coll = DeleteMerge(bookmarks, call.videoId)]
         [] call.method = "cleanupOldBookmarks" ->
              IF call.cleanupDays = 0
              THEN [call EXCEPT !.pc = "returned"]
              ELSE [call EXCEPT !.pc = "set",
                                !.cutoffDate = now - call.cleanupDays,
                                !.coll = KeptByCleanup(bookmarks, now - call.cleanupDays)]
  /\ CallUnchanged

\* getStorage() throws its StorageError
CallGetRejects ==
  /\ call.pc = "get"
  /\ call' = FnThrows(call, OperationFailed)
  /\ CallUnchanged

\* chrome.storage.local.set resolves
CallSetResolves ==
  /\ call.pc = "set"
  /\ bookmarks' = call.coll
  /\ call' = [call EXCEPT !.pc = "returned"]
  /\ roundTrip' = NoRoundTrip
  /\ UNCHANGED <<repair, retry, storage, periodic, timers, handled, dropped, activeVideos, ops, now,
                 confirms, pendingIds, observerVars>>

\* chrome.storage.local.set rejects
CallSetRejects ==
  /\ call.pc = "set"
  /\ call' = FnThrows(call, IoError)
  /\ CallUnchanged

\* withRetry's sleep ends and the body runs again
CallSleepEnds ==
  /\ call.pc = "sleep"
  /\ call' = [call EXCEPT !.pc = "get"]
  /\ CallUnchanged

----------------------------------------------------------------------------
(* StorageManager.initialize.  Each step is one awaited compound of the      *)
(* source (a getStorage, a chrome.storage.local.set, a createBackup, the     *)
(* whole of validateAndRepair or restoreFromBackup) that either resolves or  *)
(* throws after its own retries.  The stored bookmarks are valid records,    *)
(* which validateAndRepairBookmarks keeps as they are, and a stored backup   *)
(* is well formed, so that cleanupCorruptedBackup rewrites it with the same  *)
(* data.  restored is history: the outcome of restoreFromBackup.             *)

\* validateAndRepairSettings
RepairedSettings(settings) ==
  IF settings = NoSettings \/ ~(settings.cleanupDays > 0)
  THEN DefaultSettings
  ELSE [autoTrack |-> settings.autoTrack,
        cleanupDays |-> Max(1, Min(365, settings.cleanupDays))]

InitializeUnchanged ==
  /\ roundTrip' = NoRoundTrip
  /\ UNCHANGED <<repair, retry, periodic, timers, handled, dropped, activeVideos, ops, now, confirms,
                 pendingIds, observerVars>>

\* a caller enters initialize(): recovery.validateAndRepair() is awaited
Initialize ==
  /\ call.pc = "idle"
  /\ call' = [method |-> "initialize", pc |-> "validate", attempt |-> 0,
              restored |-> "none", error |-> IoError]
  /\ UNCHANGED <<bookmarks, storage>>
  /\ InitializeUnchanged

\* validateAndRepair resolves: the repaired data is saved
ValidateResolves ==
  /\ call.pc = "validate"
  /\ storage' = [storage EXCEPT !.settings = RepairedSettings(storage.settings)]
  /\ call' = [call EXCEPT !.pc = "init"]
  /\ UNCHANGED bookmarks
  /\ InitializeUnchanged

\* validateAndRepair throws: initialize goes to restoreFromBackup
ValidateRejects ==
  /\ call.pc = "validate"
  /\ call' = [call EXCEPT !.pc = "restore"]
  /\ UNCHANGED <<bookmarks, storage>>
  /\ InitializeUnchanged

\* the body under withRetry('initialize storage') throws
InitFnThrows(c) ==
  IF c.attempt + 1 = StorageMaxAttempts
  THEN [c EXCEPT !.attempt = c.attempt + 1, !.pc = "restore"]
  ELSE [c EXCEPT !.attempt = c.attempt + 1, !.pc = "init"]

\* the body's getStorage() resolves: both keys are there since
\* validateAndRepair has saved them, so updates stays empty, nothing is set
\* and checkBackup's createBackup is awaited
InitGetResolves ==
  /\ call.pc = "init"
  /\ storage.settings # NoSettings
  /\ call' = [call EXCEPT !.pc = "initBackup"]
  /\ UNCHANGED <<bookmarks, storage>>
  /\ InitializeUnchanged

\* checkBackup's createBackup resolves and initialize returns
InitBackupResolves ==
  /\ call.pc = "initBackup"
  /\ storage' = [storage EXCEPT !.backup =
                   [data |-> [bookmarks |-> bookmarks, settings |-> storage.settings]]]
  /\ call' = [call EXCEPT !.pc = "returned"]
  /\ UNCHANGED bookmarks
  /\ InitializeUnchanged

\* the awaited call of the body throws
InitStepRejects ==
  /\ call.pc \in {"init", "initBackup"}
  /\ call' = InitFnThrows(call)
  /\ UNCHANGED <<bookmarks, storage>>
  /\ InitializeUnchanged

\* restoreFromBackup returns true: the backup's data is stored
RestoreResolves ==
  /\ call.pc = "restore"
  /\ storage.backup # NoBackup
  /\ bookmarks' = storage.backup.data.bookmarks
  /\ storage' = [storage EXCEPT !.settings = RepairedSettings(storage.backup.data.settings)]
  /\ call' = [call EXCEPT !.pc = "returned", !.restored = "true"]
  /\ InitializeUnchanged

\* restoreFromBackup returns false: there is no backup
RestoreFalse ==
  /\ call.pc = "restore"
  /\ storage.backup = NoBackup
  /\ call' = [call EXCEPT !.pc = "fallback", !.restored = "false"]
  /\ UNCHANGED <<bookmarks, storage>>
  /\ InitializeUnchanged

\* restoreFromBackup throws
RestoreRejects ==
  /\ call.pc = "restore"
  /\ call' = [call EXCEPT !.pc = "lastResort", !.restored = "threw"]
  /\ UNCHANGED <<bookmarks, storage>>
  /\ InitializeUnchanged

\* the write of the empty state resolves, in the try block or in its catch
EmptyStateResolves ==
  /\ call.pc \in {"fallback", "lastResort"}
  /\ bookmarks' = EmptyCollection
  /\ storage' = [storage EXCEPT !.settings = DefaultSettings]
  /\ call' = [call EXCEPT !.pc = "returned"]
  /\ InitializeUnchanged

\* the write of the empty state rejects: in the try block the rejection is
\* caught by catch (backupError), in that catch block nothing catches it
EmptyStateRejects ==
  /\ call.pc \in {"fallback", "lastResort"}
  /\ call' = IF call.pc = "fallback"
             THEN [call EXCEPT !.pc = "lastResort"]
             ELSE [call EXCEPT !.pc = "threw"]
  /\ UNCHANGED <<bookmarks, storage>>
  /\ InitializeUnchanged

NoObservers ==
  /\ msgs = NoMessages
  /\ undone = {}
  /\ popup = ClosedPopup
  /\ controls = [t \in Tabs |-> NoControls]

Init ==
  /\ activeVideos = [t \in Tabs |-> NoVideo]
  /\ bookmarks = EmptyCollection
  /\ ops = {}
  /\ now = 0
  /\ confirms = {}
  /\ NoObservers
  /\ pendingIds = {}
  /\ roundTrip = NoRoundTrip
  /\ repair = NoRepair
  /\ retry = NoRetry
  /\ call = NoCall
  /\ storage = DefaultStorage
  /\ periodic = NoPeriodic
  /\ timers = NoTimers
  /\ handled = {}
  /\ dropped = NoDropped

StorageStep ==
  \/ \E op \in ops : StorageGet(op)
  \/ \E op \in ops : StorageSet(op)

\* Date.now() grows
Tick ==
  /\ now < MaxTime
  /\ now' = now + 1
  /\ roundTrip' = NoRoundTrip
  /\ UNCHANGED <<pureVars, activeVideos, bookmarks, ops, confirms, observerVars, pendingIds>>

\* a caller enters storageManager.saveBookmark(bookmark) after its earlier
\* call has returned
SaveBookmark(bookmark) ==
  /\ ops = {}
  /\ ops' = {[kind |-> "save", bm |-> bookmark, phase |-> "get", coll |-> EmptyCollection]}
  /\ roundTrip' = NoRoundTrip
  /\ UNCHANGED <<pureVars, activeVideos, bookmarks, now, confirms, observerVars, pendingIds>>

(* The registry of one tab that switches between two videos, positions 0 and 1 *)
Next ==
  \/ \E v \in VideoIds, ti \in Titles, au \in Authors,
        l \in SmallTimestamps \cup {Undefined}, m \in SmallTimestamps \cup {Undefined} :
       HandleVideoDetected(1, v, v, ti, au, l, m)
  \/ \E v \in VideoIds, u \in VideoIds \cup {NoUrlId} :
       HandleVideoDetectedMismatch(1, v, u)
  \/ \E v \in VideoIds : HandleVideoClosed(1, v)
  \/ \E v \in VideoIds, ts \in SmallTimestamps, h \in BOOLEAN :
       HandleUpdateTimestamp(1, v, ts, h)
  \/ HandleTabRemoved(1)
  \/ HandleTabUpdated(1)
  \/ StorageStep

Spec == Init /\ [][Next]_vars

(* Detections alone: one tab on which either video is detected with any      *)
(* metadata, with or without a last position.                                *)
NextDetect ==
  \/ \E v \in VideoIds, ti \in Titles, au \in Authors, l \in {1, Undefined} :
       HandleVideoDetected(1, v, v, ti, au, l, 1)
  \/ \E v \in VideoIds, u \in VideoIds \cup {NoUrlId} :
       HandleVideoDetectedMismatch(1, v, u)
  \/ StorageStep

SpecDetect == Init /\ [][NextDetect]_vars

(* Timestamp updates of one tab watching one video, positions 0..MaxTimestamp *)
NextUpdate ==
  \/ \E ti \in Titles, au \in Authors,
        l \in Timestamps \cup {Undefined}, m \in Timestamps \cup {Undefined} :
       HandleVideoDetected(1, "A", "A", ti, au, l, m)
  \/ \E ts \in Timestamps, h \in BOOLEAN : HandleUpdateTimestamp(1, "A", ts, h)
  \/ HandleVideoClosed(1, "A")
  \/ StorageStep

SpecUpdate == Init /\ [][NextUpdate]_vars

(* Timestamp updates for either video on either tab, where only video A is   *)
(* ever detected: updates for B, and for a tab without a session, are stale. *)
NextStale ==
  \/ \E t \in Tabs : HandleVideoDetected(t, "A", "A", "T", "U", 1, 1)
  \/ \E t \in Tabs, ts \in SmallTimestamps : HandleUpdateTimestamp(t, "A", ts, FALSE)
  \/ \E t \in Tabs, v \in VideoIds : HandleUpdateTimestampStale(t, v)
  \/ \E t \in Tabs : HandleVideoClosed(t, "A")
  \/ StorageStep

SpecStale == Init /\ [][NextStale]_vars

(* Deletion of video A as the background sees it: B is stored and watched in *)
(* tab 2, A is not yet stored, either tab may come to watch A, and deletion  *)
(* messages for A arrive from any observer.                                  *)
StoredBookmark(videoId) ==
  [id |-> videoId, url |-> videoId, title |-> "T", author |-> "U",
   lastTimestamp |-> 1, maxTimestamp |-> 1, createdAt |-> 0, updatedAt |-> 0]

InitDelete ==
  /\ activeVideos = [t \in Tabs |->
                       IF t = 2
                       THEN DetectedVideo(2, "B", "T", "U", 1, 1, NoVideo)
                       ELSE NoVideo]
  /\ bookmarks = [EmptyCollection EXCEPT !["B"] = StoredBookmark("B")]
  /\ ops = {}
  /\ now = 0
  /\ confirms = {}
  /\ NoObservers
  /\ pendingIds = {}
  /\ roundTrip = NoRoundTrip
  /\ repair = NoRepair
  /\ retry = NoRetry
  /\ call = NoCall
  /\ storage = DefaultStorage
  /\ periodic = NoPeriodic
  /\ timers = NoTimers
  /\ handled = {}
  /\ dropped = NoDropped

NextDelete ==
  \/ \E t \in Tabs : HandleVideoDetected(t, "A", "A", "T", "U", 1, 1)
  \/ HandleInitiateDelete("A", FALSE)
  \/ HandleUndoDelete("A", FALSE)
  \/ HandleConfirmDelete("A", FALSE)
  \/ ConfirmStep
  \/ StorageStep

SpecDelete == InitDelete /\ [][NextDelete]_vars

\* no stored bookmark and no session for the video
Deleted(videoId) ==
  /\ bookmarks[videoId] = NoBookmark
  /\ \A t \in Tabs : activeVideos[t] = NoVideo \/ activeVideos[t].id # videoId

(* Periodic saves while sessions come, are marked for deletion and are       *)
(* unmarked.                                                                 *)
NextPeriodic ==
  \/ \E t \in Tabs : HandleVideoDetected(t, "A", "A", "T", "U", 1, 1)
  \/ \E v \in VideoIds : HandleInitiateDelete(v, FALSE)
  \/ \E v \in VideoIds : HandleUndoDelete(v, FALSE)
  \/ PeriodicSave
  \/ StorageStep

SpecPeriodic == InitDelete /\ [][NextPeriodic]_vars

(* Tracking events of two tabs that watch the stored video A while its       *)
(* deletion is initiated and undone.                                         *)
InitTracking ==
  /\ activeVideos = [t \in Tabs |-> DetectedVideo(t, "A", "T", "U", 1, 1, NoVideo)]
  /\ bookmarks = [EmptyCollection EXCEPT !["A"] = StoredBookmark("A")]
  /\ ops = {}
  /\ now = 0
  /\ confirms = {}
  /\ NoObservers
  /\ pendingIds = {}
  /\ roundTrip = NoRoundTrip
  /\ repair = NoRepair
  /\ retry = NoRetry
  /\ call = NoCall
  /\ storage = DefaultStorage
  /\ periodic = NoPeriodic
  /\ timers = NoTimers
  /\ handled = {}
  /\ dropped = NoDropped

NextTracking ==
  \/ HandleInitiateDelete("A", FALSE)
  \/ HandleUndoDelete("A", FALSE)
  \/ \E t \in Tabs, ts \in Timestamps, h \in BOOLEAN : HandleUpdateTimestamp(t, "A", ts, h)
  \/ \E t \in Tabs : HandleVideoClosed(t, "A")
  \/ \E t \in Tabs : HandleTabRemoved(t)
  \/ \E t \in Tabs : HandleTabUpdated(t)
  \/ PeriodicSave
  \/ StorageStep

SpecTracking == InitTracking /\ [][NextTracking]_vars

(* Deletion of video A under fair scheduling.  Tab 1 watches A, the popup    *)
(* may be opened and closed and the tab's controls may be destroyed.  What   *)
(* the program does on its own is fair: messages are delivered, handlers     *)
(* and storage calls run on, armed timers fire, each of them strongly fair   *)
(* so that no amount of user activity starves it.  What the user does        *)
(* (open, close, click, destroy) is not fair.                                *)
InitLive ==
  /\ activeVideos = [t \in Tabs |->
                       IF t = 1 THEN DetectedVideo(1, "A", "T", "U", 1, 1, NoVideo)
                       ELSE NoVideo]
  /\ bookmarks = [EmptyCollection EXCEPT !["A"] = StoredBookmark("A")]
  /\ ops = {}
  /\ now = 0
  /\ confirms = {}
  /\ msgs = NoMessages
  /\ popup = ClosedPopup
  /\ controls = [t \in Tabs |->
                   IF t = 1 THEN [videoId |-> "A", listening |-> TRUE,
                                  isActive |-> TRUE, undoTimer |-> FALSE]
                   ELSE NoControls]
  /\ undone = {}
  /\ pendingIds = {}
  /\ roundTrip = NoRoundTrip
  /\ repair = NoRepair
  /\ retry = NoRetry
  /\ call = NoCall
  /\ storage = DefaultStorage
  /\ periodic = NoPeriodic
  /\ timers = NoTimers
  /\ handled = {}
  /\ dropped = NoDropped

NextLive ==
  \/ PopupOpen
  \/ PopupClose
  \/ PopupInitiateDelete("A")
  \/ PopupUndo("A")
  \/ PopupTimeout("A")
  \/ PopupReceive
  \/ ControlsInitiateDelete(1)
  \/ ControlsUndo(1)
  \/ ControlsTimeout(1)
  \/ ControlsReceive(1)
  \/ ControlsDestroy(1)
  \/ HandleInitiateDelete("A", TRUE)
  \/ HandleUndoDelete("A", TRUE)
  \/ HandleConfirmDelete("A", TRUE)
  \/ ConfirmStep

SpecLive ==
  /\ InitLive
  /\ [][NextLive]_vars
  /\ SF_vars(PopupTimeout("A"))
  /\ SF_vars(PopupReceive)
  /\ SF_vars(ControlsTimeout(1))
  /\ SF_vars(ControlsReceive(1))
  /\ SF_vars(HandleInitiateDelete("A", TRUE))
  /\ SF_vars(HandleUndoDelete("A", TRUE))
  /\ SF_vars(HandleConfirmDelete("A", TRUE))
  /\ SF_vars(ConfirmStep)

(* Deletion of video A with its observers: A is stored and watched in both  *)
(* tabs with active controls, and the popup may be opened.                   *)
InitObservers ==
  /\ activeVideos = [t \in Tabs |-> DetectedVideo(t, "A", "T", "U", 1, 1, NoVideo)]
  /\ bookmarks = [EmptyCollection EXCEPT !["A"] = StoredBookmark("A")]
  /\ ops = {}
  /\ now = 0
  /\ confirms = {}
  /\ msgs = NoMessages
  /\ popup = ClosedPopup
  /\ controls = [t \in Tabs |-> [videoId |-> "A", listening |-> TRUE,
                                  isActive |-> TRUE, undoTimer |-> FALSE]]
  /\ undone = {}
  /\ pendingIds = {}
  /\ roundTrip = NoRoundTrip
  /\ repair = NoRepair
  /\ retry = NoRetry
  /\ call = NoCall
  /\ storage = DefaultStorage
  /\ periodic = NoPeriodic
  /\ timers = NoTimers
  /\ handled = {}
  /\ dropped = NoDropped

NextObservers ==
  \/ PopupOpen
  \/ PopupInitiateDelete("A")
  \/ PopupUndo("A")
  \/ PopupTimeout("A")
  \/ PopupReceive
  \/ \E t \in Tabs : ControlsInitiateDelete(t)
  \/ \E t \in Tabs : ControlsUndo(t)
  \/ \E t \in Tabs : ControlsTimeout(t)
  \/ \E t \in Tabs : ControlsReceive(t)
  \/ HandleInitiateDelete("A", TRUE)
  \/ HandleUndoDelete("A", TRUE)
  \/ HandleConfirmDelete("A", TRUE)
  \/ ConfirmStep

SpecObservers == InitObservers /\ [][NextObservers]_vars

(* The store under one caller that saves bookmarks one call after another    *)
(* while the clock advances.                                                 *)
InputBookmarks ==
  { [id |-> v, url |-> v, title |-> "T", author |-> "U",
     lastTimestamp |-> l, maxTimestamp |-> 1, createdAt |-> c, updatedAt |-> c] :
      v \in VideoIds, l \in SmallTimestamps, c \in {0, 1} }

NextStore ==
  \/ \E bookmark \in InputBookmarks : SaveBookmark(bookmark)
  \/ StorageStep
  \/ Tick

SpecStore == Init /\ [][NextStore]_vars

\* every field but updatedAt agrees
SameContent(a, b) == [a EXCEPT !.updatedAt = 0] = [b EXCEPT !.updatedAt = 0]

(* Repair of a stored collection in which the value under A is arbitrary and *)
(* the value under B is a valid bookmark.                                    *)
RawNumbers == {Num(-1), Num(0), Num(1), Num(2), NaN, Str, Missing}

RawTimes == {Num(-1), Num(0), Num(1), Num(3), Missing}

ValidStored ==
  [kind |-> "object", id |-> JStr("B"), url |-> JStr("B"), title |-> JStr("T"),
   author |-> JStr("U"), lastTimestamp |-> Num(1), maxTimestamp |-> Num(1),
   createdAt |-> Num(0), updatedAt |-> Num(0)]

StoredValues ==
  {NullValue, Primitive} \cup
  { [kind |-> "object", id |-> i, url |-> JStr("A"), title |-> ti, author |-> JStr("U"),
     lastTimestamp |-> l, maxTimestamp |-> m, createdAt |-> c, updatedAt |-> u] :
      i \in {JStr("A"), NoString}, ti \in {JStr("T"), NoString},
      l \in RawNumbers, m \in RawNumbers, c \in RawTimes, u \in RawTimes }

NextRepair ==
  \/ \E value \in StoredValues :
       ValidateAndRepairBookmarks([v \in VideoIds |-> IF v = "A" THEN value ELSE ValidStored])
  \/ Tick

SpecRepair == Init /\ [][NextRepair]_vars

(* One call of withRetry with any outcome of each attempt *)
Operations == {"save bookmark", "get storage data"}

\* delays in units of 500 ms: STORAGE_RETRY_CONFIG is (1, 10, 2) and
\* DEFAULT_RETRY_CONFIG is (2, 20, 2)
RetryConfigs ==
  { [initialDelay |-> i, maxDelay |-> m, backoffFactor |-> b] :
      i \in {1, 2}, m \in {3, 10}, b \in {1, 2} }

NextRetry ==
  \/ \E operation \in Operations, maxAttempts \in 0..MaxAttempts, hasTimeout \in BOOLEAN,
        config \in RetryConfigs :
       WithRetry(operation, maxAttempts, hasTimeout, config)
  \/ AttemptFulfils
  \/ AttemptRejects
  \/ TimeoutFires
  \/ RaceTimesOut
  \/ SleepEnds

SpecRetry == Init /\ [][NextRetry]_vars

(* The StorageManager methods called one after another on a store of        *)
(* bookmarks of different ages, while the clock advances.                    *)
AgedBookmark(videoId, updatedAt) ==
  [StoredBookmark(videoId) EXCEPT !.updatedAt = updatedAt]

InitManager ==
  /\ activeVideos = [t \in Tabs |-> NoVideo]
  /\ bookmarks \in [VideoIds -> {NoBookmark} \cup
                                  {AgedBookmark(v, u) : v \in VideoIds, u \in {0, 1}}]
  /\ \A v \in VideoIds : bookmarks[v] = NoBookmark \/ bookmarks[v].id = v
  /\ ops = {}
  /\ now = 1
  /\ confirms = {}
  /\ NoObservers
  /\ pendingIds = {}
  /\ roundTrip = NoRoundTrip
  /\ repair = NoRepair
  /\ retry = NoRetry
  /\ call = NoCall
  /\ storage = DefaultStorage
  /\ periodic = NoPeriodic
  /\ timers = NoTimers
  /\ handled = {}
  /\ dropped = NoDropped

NextManager ==
  \/ \E v \in VideoIds, wrapped \in BOOLEAN : GetBookmark(v, wrapped)
  \/ \E v \in VideoIds, wrapped \in BOOLEAN : DeleteBookmark(v, wrapped)
  \/ \E cleanupDays \in 0..2, wrapped \in BOOLEAN : CleanupOldBookmarks(cleanupDays, wrapped)
  \/ CallGetResolves
  \/ CallGetRejects
  \/ CallSetResolves
  \/ CallSetRejects
  \/ CallSleepEnds
  \/ Tick

SpecManager == InitManager /\ [][NextManager]_vars

(* One call of initialize on a store with or without settings and backup,    *)
(* under any pattern of storage failures.                                    *)
CustomSettings == [autoTrack |-> FALSE, cleanupDays |-> 400]

StoredCollections ==
  { coll \in [VideoIds -> {NoBookmark} \cup {StoredBookmark(v) : v \in VideoIds}] :
      \A v \in VideoIds : coll[v] = NoBookmark \/ coll[v].id = v }

InitInitialize ==
  /\ activeVideos = [t \in Tabs |-> NoVideo]
  /\ bookmarks \in StoredCollections
  /\ storage \in
       { [settings |-> st, backup |-> b] :
           st \in {NoSettings, DefaultSettings, CustomSettings},
           b \in {NoBackup} \cup
                 { [data |-> [bookmarks |-> coll, settings |-> CustomSettings]] :
                     coll \in StoredCollections } }
  /\ ops = {}
  /\ now = 0
  /\ confirms = {}
  /\ NoObservers
  /\ pendingIds = {}
  /\ roundTrip = NoRoundTrip
  /\ repair = NoRepair
  /\ retry = NoRetry
  /\ call = NoCall
  /\ periodic = NoPeriodic
  /\ timers = NoTimers
  /\ handled = {}
  /\ dropped = NoDropped

NextInitialize ==
  \/ Initialize
  \/ ValidateResolves
  \/ ValidateRejects
  \/ InitGetResolves
  \/ InitBackupResolves
  \/ InitStepRejects
  \/ RestoreResolves
  \/ RestoreFalse
  \/ RestoreRejects
  \/ EmptyStateResolves
  \/ EmptyStateRejects

SpecInitialize == InitInitialize /\ [][NextInitialize]_vars

----------------------------------------------------------------------------
\* C1: handleUpdateTimestamp never lowers a session's maxTimestamp, and after
\* every update maxTimestamp >= lastTimestamp.
C1_MaxNeverDecreases ==
  [][\A ts \in Timestamps, h \in BOOLEAN :
       HandleUpdateTimestamp(1, "A", ts, h) =>
         /\ activeVideos'[1].maxTimestamp >= activeVideos[1].maxTimestamp
         /\ activeVideos'[1].maxTimestamp >= activeVideos'[1].lastTimestamp]_vars

C7_TabSwitchFlush ==
  /\ [][\A t \in Tabs :
          ( /\ activeVideos[t] # NoVideo
            /\ activeVideos'[t] # NoVideo
            /\ activeVideos'[t].id # activeVideos[t].id )
          => \E op \in ops' :
               /\ op.kind = "save"
               /\ op.phase = "get"
               /\ op.bm.id = activeVideos[t].id
               /\ op.bm.lastTimestamp = activeVideos[t].lastTimestamp
               /\ op.bm.maxTimestamp = activeVideos[t].maxTimestamp]_vars
  /\ [][\A op \in ops :
          (op.kind = "save" /\ op.phase = "set" /\ op \notin ops')
          => /\ bookmarks'[op.bm.id] # NoBookmark
             /\ bookmarks'[op.bm.id].id = op.bm.id
             /\ bookmarks'[op.bm.id].lastTimestamp = op.bm.lastTimestamp
             /\ bookmarks'[op.bm.id].maxTimestamp = op.bm.maxTimestamp]_vars
  /\ [](\A k \in VideoIds : bookmarks[k] # NoBookmark => bookmarks[k].id = k)

\* tab 1 went from video A at (1, 1) to video B and A's flush has landed
C7_Witness ==
  /\ activeVideos[1] # NoVideo
  /\ activeVideos[1].id = "B"
  /\ activeVideos[1].lastTimestamp = 0
  /\ activeVideos[2] = NoVideo
  /\ bookmarks["A"] # NoBookmark
  /\ bookmarks["A"].lastTimestamp = 1
  /\ bookmarks["A"].maxTimestamp = 1
  /\ bookmarks["B"] = NoBookmark
  /\ ops = {}

----------------------------------------------------------------------------
C5_DeletionFinality ==
  [][\A c \in confirms :
       ( /\ c.wasPending
         /\ ~c.wasDeleted
         /\ c.stage = "delete"
         /\ c \notin confirms'
         /\ Cardinality(confirms') < Cardinality(confirms) )
       => Deleted(c.videoId)']_vars

\* C6: in a state where id is Deleted, handling a further UNDO_DELETE(id), or
\* any step of handling a CONFIRM_DELETE(id) that arrived when id was
\* Deleted, changes neither the stored collection nor activeVideos.
C6_DeletedIsTerminal ==
  [][Deleted("A") =>
       /\ HandleUndoDelete("A", FALSE) => UNCHANGED <<bookmarks, activeVideos>>
       /\ HandleConfirmDelete("A", FALSE) => UNCHANGED <<bookmarks, activeVideos>>
       /\ \A c \in confirms :
            (c.videoId = "A" /\ c.wasDeleted /\ c \notin confirms')
            => UNCHANGED <<bookmarks, activeVideos>>]_vars

\* A is Deleted, a CONFIRM_DELETE(A) that arrived in that state has twice
\* failed to find the bookmark, and B is still stored and watched in tab 2
C6_Witness ==
  /\ Deleted("A")
  /\ \E c \in confirms : c.videoId = "A" /\ c.wasDeleted /\ c.attempt = 2
  /\ bookmarks["B"] # NoBookmark
  /\ activeVideos[2] # NoVideo
  /\ activeVideos[2].id = "B"

----------------------------------------------------------------------------
\* C4: once an observer has sent UNDO_DELETE(id) during the countdown and
\* every message has been delivered and handled, no countdown timer for id is
\* armed in the popup or in any tab, so no CONFIRM_DELETE(id) can follow.
C4_UndoCancelsEveryTimer ==
  \A id \in undone :
    (msgs = NoMessages /\ confirms = {})
    => /\ id \notin popup.timers
       /\ \A t \in Tabs : ~(controls[t].videoId = id /\ controls[t].undoTimer)

----------------------------------------------------------------------------
\* C8: when saveBookmark completes for a bookmark whose content is already
\* stored under its id (as an earlier call with the same content left it),
\* there is still one record under that id, keyed and named by the id, it
\* differs from the record before in no field other than updatedAt, and no
\* other bookmark of the collection has changed.
C8_IdempotentUpsert ==
  [][\A op \in ops :
       ( /\ op.kind = "save"
         /\ op.phase = "set"
         /\ op \notin ops'
         /\ bookmarks[op.bm.id] # NoBookmark
         /\ SameContent(bookmarks[op.bm.id], op.bm) )
       => /\ bookmarks'[op.bm.id] # NoBookmark
          /\ bookmarks'[op.bm.id].id = op.bm.id
          /\ SameContent(bookmarks'[op.bm.id], bookmarks[op.bm.id])
          /\ \A k \in VideoIds \ {op.bm.id} : bookmarks'[k] = bookmarks[k]]_vars

\* a second saveBookmark of the content stored for A at time 1 is about to
\* write the collection at time 3, while B is stored too
C8_Witness ==
  /\ bookmarks["A"] # NoBookmark
  /\ bookmarks["B"] # NoBookmark
  /\ bookmarks["A"].updatedAt = 1
  /\ \E op \in ops : /\ op.phase = "set"
                     /\ op.bm.id = "A"
                     /\ SameContent(op.bm, bookmarks["A"])
                     /\ op.coll["A"].updatedAt = 3
                     /\ op.coll["B"] = bookmarks["B"]

----------------------------------------------------------------------------
\* C9: for a stored value that is an object and fails validation,
\* validateAndRepairBookmarks puts a record under its id with
\* lastTimestamp >= 0, maxTimestamp >= lastTimestamp and
\* createdAt <= updatedAt <= now; for a value that is null or not an object
\* it puts no record under the id.
C9_RepairConverges ==
  repair.stage = "done" =>
    LET value == repair.stored["A"]
        out == repair.repaired["A"]
    IN /\ value.kind # "object" => out = NoRecord
       /\ value.kind = "object" =>
            /\ out # NoRecord
            /\ JsGe(out.lastTimestamp, Num(0))
            /\ JsGe(out.maxTimestamp, out.lastTimestamp)
            /\ JsLe(out.createdAt, out.updatedAt)
            /\ JsLe(out.updatedAt, Num(repair.at))

----------------------------------------------------------------------------
\* C10: withRetry invokes fn at most maxAttempts times; when it returns, the
\* attempt that succeeded was the last invocation and every earlier one
\* failed; when it throws, every one of maxAttempts attempts failed and the
\* RetryError carries the operation name, attempts = maxAttempts and the
\* error of the final attempt.
C10_RetryContract ==
  retry.pc # "idle" =>
    /\ retry.calls <= retry.maxAttempts
    /\ retry.pc = "returned" => retry.calls = Len(retry.errors) + 1
    /\ retry.pc = "thrown" =>
         /\ retry.calls = retry.maxAttempts
         /\ Len(retry.errors) = retry.maxAttempts
         /\ retry.thrown.operation = retry.operation
         /\ retry.thrown.attempts = retry.maxAttempts
         /\ retry.maxAttempts > 0 =>
              retry.thrown.lastError = retry.errors[retry.maxAttempts]

\* three attempts failed with an error of fn each and the RetryError was
\* thrown
C10_Witness ==
  /\ retry.pc = "thrown"
  /\ retry.maxAttempts = 3
  /\ retry.calls = 3
  /\ retry.thrown.lastError = FnError(3)

----------------------------------------------------------------------------
\* C11: the k-th sleep of withRetry (k counted from 0), which follows the
\* k-th failed attempt, lasts min(initialDelay * backoffFactor^k, maxDelay);
\* there is one sleep after every failed attempt but the last one allowed.
C11_BackoffDelays ==
  retry.pc # "idle" =>
    LET c == retry.config
        power[e \in 0..MaxAttempts + 1] == IF e = 0 THEN 1 ELSE c.backoffFactor * power[e - 1]
    IN /\ \A k \in 1..Len(retry.slept) :
            LET d == c.initialDelay * power[k - 1]
            IN retry.slept[k] = IF d <= c.maxDelay THEN d ELSE c.maxDelay
       /\ Len(retry.slept) = IF retry.pc = "thrown" /\ retry.maxAttempts > 0
                             THEN Len(retry.errors) - 1
                             ELSE Len(retry.errors)

\* three attempts failed; the two sleeps lasted 2 and then the cap 3 where
\* the uncapped delay would be 4
C11_Witness ==
  /\ retry.pc = "thrown"
  /\ retry.maxAttempts = 3
  /\ retry.config = [initialDelay |-> 2, maxDelay |-> 3, backoffFactor |-> 2]
  /\ retry.slept = <<2, 3>>

\* C12: once the timeout of withRetry has fired while the call is in
\* progress, fn is not invoked again and no further delay is slept.
C12_TimeoutEndsCall ==
  [][(retry.pc \in {"attempt", "sleep"} /\ retry.timedOut)
     => /\ retry'.calls = retry.calls
        /\ retry'.slept = retry.slept]_vars

\* C13: getBookmark(id) for an id absent from the stored collection fails
\* with a StorageError of type NOT_FOUND, with and without withRetry.
C13_GetAbsentIsNotFound ==
  [][(/\ call.pc = "get"
      /\ call.method = "getBookmark"
      /\ call'.pc = "threw"
      /\ call'.lastError = NotFound)
     => call'.error = NotFound]_vars

\* C14: deleteBookmark(id) for an absent id fails with a StorageError of type
\* NOT_FOUND and leaves the collection unchanged; for a present id it removes
\* that record and leaves every other record unchanged.
C14_DeleteBookmark ==
  [][(call.pc \in {"get", "set"} /\ call.method = "deleteBookmark")
     => /\ (call'.pc = "threw" /\ call'.lastError = NotFound)
           => (call'.error = NotFound /\ bookmarks' = call.before)
        /\ call'.pc = "returned"
           => (/\ call.before[call.videoId] # NoBookmark
               /\ bookmarks' = [call.before EXCEPT ![call.videoId] = NoBookmark])]_vars

\* C15: initialize() never throws to its caller; when restoreFromBackup
\* returns false or throws, initialize ends with an empty bookmark collection
\* and the default settings.
C15_InitializeNeverThrows ==
  (call.pc # "idle" /\ call.method = "initialize")
    => /\ call.pc # "threw"
       /\ (call.pc = "returned" /\ call.restored \in {"false", "threw"})
            => (bookmarks = EmptyCollection /\ storage.settings = DefaultSettings)

\* C16: cleanupOldBookmarks() removes exactly the bookmarks whose updatedAt
\* is older than now - cleanupDays and keeps every other bookmark unchanged.
C16_CleanupRemovesOlderOnly ==
  [][(/\ call.pc = "set"
      /\ call.method = "cleanupOldBookmarks"
      /\ call'.pc = "returned")
     => bookmarks' =
          [v \in VideoIds |->
             IF call.before[v] # NoBookmark /\ call.before[v].updatedAt < call.cutoffDate
             THEN NoBookmark
             ELSE call.before[v]]]_vars

\* C17: a periodic-save tick calls saveVideoState for every session whose
\* pendingDeletion flag is not set and for no session whose flag is set.
C17_PeriodicSaveSkipsPending ==
  [][periodic' # periodic
     => /\ \A t \in Tabs :
             t \in periodic'.saved
               <=> (activeVideos[t] # NoVideo /\ ~activeVideos[t].pendingDeletion)
        /\ ops' = ops \cup { SaveOp(activeVideos[t]) : t \in periodic'.saved }
        /\ activeVideos' = activeVideos]_vars

\* a tick has saved the session of one tab and skipped the pending one of the other
C17_Witness ==
  /\ periodic.saved = {1}
  /\ activeVideos[1] # NoVideo
  /\ activeVideos[2] # NoVideo
  /\ activeVideos[2].pendingDeletion
  /\ SaveOp(activeVideos[1]) \in ops

\* C18: while a session is marked pendingDeletion, no event changes its
\* lastTimestamp or maxTimestamp and no save of its video's bookmark is
\* started.
C18_PendingIsFrozen ==
  [][\A t \in Tabs :
       (activeVideos[t] # NoVideo /\ activeVideos[t].pendingDeletion)
         => /\ \A op \in ops' \ ops : op.bm.id # activeVideos[t].id
            /\ (activeVideos'[t] # NoVideo /\ activeVideos'[t].pendingDeletion)
                 => /\ activeVideos'[t].lastTimestamp = activeVideos[t].lastTimestamp
                    /\ activeVideos'[t].maxTimestamp = activeVideos[t].maxTimestamp]_vars

\* C19: an INITIATE_DELETE(id) handled while id is already pending leaves the
\* registry as the first one left it, and within one pending episode
\* CONFIRM_DELETE(id) is handled at most once.
C19_InitiateReentrant ==
  [][(msgs.bg # <<>> /\ msgs'.bg = Tail(msgs.bg))
     => LET message == Head(msgs.bg)
        IN /\ (message.type = "INITIATE_DELETE" /\ message.videoId \in pendingIds)
                => activeVideos' = activeVideos
           /\ message.type = "CONFIRM_DELETE"
                => message.videoId \notin handled]_vars

\* C20: for each video id at most one countdown that can trigger the delete
\* is armed in the whole system, and no observer (popup or content script)
\* decides the deletion: none of them sends CONFIRM_DELETE to the background.
C20_SingleCountdown ==
  /\ \A id \in VideoIds :
       LET inPopup == IF id \in popup.timers THEN 1 ELSE 0
           inTabs  == Cardinality({ t \in Tabs : controls[t].videoId = id
                                                 /\ controls[t].undoTimer })
       IN inPopup + inTabs <= 1
  /\ \A i \in 1..Len(msgs.bg) : msgs.bg[i].type # "CONFIRM_DELETE"

\* C21: under fair scheduling a video whose INITIATE_DELETE was handled
\* eventually stops being pending: it is undone or deleted.
C21_PendingEnds ==
  ("A" \in pendingIds) ~> ("A" \notin pendingIds)

\* C22: a VIDEO_DETECTED is rejected exactly when title and author are both
\* empty after merging with the tab's session for the same video, and a
\* rejected detection leaves activeVideos unchanged.
C22_RejectedDetectionIsNoOp ==
  [][\A v \in VideoIds, ti \in Titles, au \in Authors, l \in {1, Undefined} :
       HandleVideoDetected(1, v, v, ti, au, l, 1)
         => LET old    == activeVideos[1]
                same   == old # NoVideo /\ old.id = v
                title  == IF ti # "" THEN ti ELSE IF same THEN old.title ELSE ""
                author == IF au # "" THEN au ELSE IF same THEN old.author ELSE ""
            IN IF title = "" /\ author = ""
               THEN activeVideos' = activeVideos
               ELSE /\ activeVideos'[1] # NoVideo
                    /\ activeVideos'[1].id = v
                    /\ activeVideos'[1].title = title
                    /\ activeVideos'[1].author = author]_vars

\* C23: an UPDATE_TIMESTAMP for a tab without a session, or whose videoId is
\* not the one of the tab's session, changes neither the registry nor the
\* store, and starts no save.
C23_StaleUpdateIsNoOp ==
  [][dropped' # dropped
     => /\ dropped'.session = activeVideos[dropped'.tabId]
        /\ dropped'.session = NoVideo \/ dropped'.session.id # dropped'.videoId
        /\ UNCHANGED <<activeVideos, bookmarks, ops>>]_vars

\* an update for B was dropped while the tab's session is the one of A
C23_Witness ==
  /\ dropped # NoDropped
  /\ dropped.videoId = "B"
  /\ dropped.session # NoVideo
  /\ dropped.session.id = "A"
  /\ activeVideos[dropped.tabId] = dropped.session

\* C24: VIDEO_CLOSED, tab removal and tab navigation flush the tab's session
\* and evict it: the tab has no session afterwards, a save of the session's
\* last positions is in flight, and when a flush completes the stored
\* bookmark of its video holds the flushed lastTimestamp and maxTimestamp.
C24_FlushThenEvict ==
  [][/\ \A t \in Tabs :
          (activeVideos[t] # NoVideo /\ activeVideos'[t] = NoVideo)
            => SaveOp(activeVideos[t]) \in ops'
     /\ \A op \in ops \ ops' :
          op.phase = "set"
            => /\ bookmarks'[op.bm.id] # NoBookmark
               /\ bookmarks'[op.bm.id].lastTimestamp = op.bm.lastTimestamp
               /\ bookmarks'[op.bm.id].maxTimestamp = op.bm.maxTimestamp]_vars

\* both tabs were closed after the video was watched up to 2 and back at 0,
\* and every flush has completed
C24_Witness ==
  /\ \A t \in Tabs : activeVideos[t] = NoVideo
  /\ ops = {}
  /\ bookmarks["A"] # NoBookmark
  /\ bookmarks["A"].lastTimestamp = 0
  /\ bookmarks["A"].maxTimestamp = 2

\* C25: every session and every stored bookmark has lastTimestamp >= 0 and
\* maxTimestamp >= lastTimestamp, and every stored bookmark has
\* createdAt <= updatedAt.
C25_PositionsOrdered ==
  /\ \A t \in Tabs :
       activeVideos[t] # NoVideo
         => /\ activeVideos[t].lastTimestamp >= 0
            /\ activeVideos[t].maxTimestamp >= activeVideos[t].lastTimestamp
  /\ \A v \in VideoIds :
       bookmarks[v] # NoBookmark
         => /\ bookmarks[v].lastTimestamp >= 0
            /\ bookmarks[v].maxTimestamp >= bookmarks[v].lastTimestamp
            /\ bookmarks[v].createdAt <= bookmarks[v].updatedAt

----------------------------------------------------------------------------
(* A flush of tab 1's video A and deleteBookmark("B") running concurrently   *)
(* in the background page.  A flush starts only when no other flush is in    *)
(* flight, so that the only overlap is between the flush and the delete.     *)
InitRace ==
  /\ activeVideos = [t \in Tabs |->
                       IF t = 1 THEN DetectedVideo(1, "A", "T", "U", 1, 1, NoVideo)
                       ELSE NoVideo]
  /\ bookmarks = [v \in VideoIds |-> StoredBookmark(v)]
  /\ ops = {}
  /\ now = 0
  /\ confirms = {}
  /\ NoObservers
  /\ pendingIds = {}
  /\ roundTrip = NoRoundTrip
  /\ repair = NoRepair
  /\ retry = NoRetry
  /\ call = NoCall
  /\ storage = DefaultStorage
  /\ periodic = NoPeriodic
  /\ timers = NoTimers
  /\ handled = {}
  /\ dropped = NoDropped

NextRace ==
  \/ \E ts \in Timestamps : ops = {} /\ HandleUpdateTimestamp(1, "A", ts, FALSE)
  \/ \E wrapped \in BOOLEAN : DeleteBookmark("B", wrapped)
  \/ StorageStep
  \/ CallGetResolves
  \/ CallSetResolves
  \/ CallSleepEnds

SpecRace == InitRace /\ [][NextRace]_vars

\* C26: once a flush of tab 1's video A and a deleteBookmark("B") have both
\* completed, B is absent from storage and A is stored with the flushed
\* positions, in whatever order their storage calls interleaved.
C26_FlushAndDeleteCommute ==
  (ops = {} /\ call.pc = "returned")
    => /\ bookmarks["B"] = NoBookmark
       /\ bookmarks["A"] # NoBookmark
       /\ bookmarks["A"].lastTimestamp = activeVideos[1].lastTimestamp
       /\ bookmarks["A"].maxTimestamp = activeVideos[1].maxTimestamp

----------------------------------------------------------------------------
(* StorageRecovery.validateAndRepairSettings on any stored value: undefined, *)
(* null, a primitive, or an object whose two fields hold any value.          *)

JBool(b) == [t |-> "boolean", b |-> b]

UndefinedValue == [kind |-> "undefined"]

\* typeof x === 'boolean'
TypeofBoolean(x) == x.t = "boolean"

\* Boolean(x)
BooleanOf(x) ==
  JBool(CASE x.t = "boolean" -> x.b
          [] x.t = "number" -> x.v # 0
          [] x.t = "string" -> TRUE
          [] OTHER -> FALSE)

\* isValidSettings on a value that is not null or undefined
IsValidSettings(settings) ==
  /\ settings.kind = "object"
  /\ TypeofBoolean(settings.autoTrack)
  /\ TypeofNumber(settings.cleanupDays)
  /\ JsGt(settings.cleanupDays, Num(0))

RawDefaultSettings == [kind |-> "object", autoTrack |-> JBool(TRUE), cleanupDays |-> Num(30)]

\* validateAndRepairSettings; a falsy primitive and a truthy one end in the
\* same branch, the first by !settings and the second by typeof
ValidateAndRepairSettings(settings) ==
  IF settings.kind \in {"undefined", "null"} \/ ~IsValidSettings(settings)
  THEN RawDefaultSettings
  ELSE [kind |-> "object",
        autoTrack |-> BooleanOf(settings.autoTrack),
        cleanupDays |-> MathMax(Num(1), MathMin(Num(365), settings.cleanupDays))]

\* one call of validateAndRepairSettings; repair records its input and output
SettingsRepair(settings) ==
  /\ repair' = [stage |-> "settings", stored |-> settings,
                repaired |-> ValidateAndRepairSettings(settings)]
  /\ UNCHANGED <<retry, call, storage, periodic, timers, handled, dropped, backgroundVars,
                 observerVars, roundTrip>>

RawFlags == {JBool(TRUE), JBool(FALSE), Num(0), Num(1), NaN, Str, Missing}

RawDays ==
  {Num(-1), Num(0), Num(1), Num(2), Num(3), Num(29), Num(30), Num(31), Num(364),
   Num(365), Num(366), Num(400), Num(1000), NaN, Str, Missing}

StoredSettings ==
  {UndefinedValue, NullValue, Primitive} \cup
  { [kind |-> "object", autoTrack |-> a, cleanupDays |-> c] :
      a \in RawFlags, c \in RawDays }

NextSettings == \E settings \in StoredSettings : SettingsRepair(settings)

SpecSettings == Init /\ [][NextSettings]_vars

\* C27: validateAndRepairSettings returns a boolean autoTrack and a
\* cleanupDays in 1..365, keeps each field of the input that is valid
\* (cleanupDays brought into the range) and puts the default in the place of
\* each field that is not.
C27_SettingsRepairedFieldwise ==
  repair.stage = "settings" =>
    LET settings == repair.stored
        repaired == repair.repaired
        isObject == settings.kind = "object"
    IN /\ TypeofBoolean(repaired.autoTrack)
       /\ JsGe(repaired.cleanupDays, Num(1))
       /\ JsLe(repaired.cleanupDays, Num(365))
       /\ repaired.autoTrack =
            IF isObject /\ TypeofBoolean(settings.autoTrack)
            THEN settings.autoTrack ELSE JBool(TRUE)
       /\ repaired.cleanupDays =
            IF isObject /\ TypeofNumber(settings.cleanupDays)
                        /\ JsGt(settings.cleanupDays, Num(0))
            THEN MathMax(Num(1), MathMin(Num(365), settings.cleanupDays))
            ELSE Num(30)

----------------------------------------------------------------------------
(* StorageRecovery.restoreFromBackup and cleanupCorruptedBackup.  In this    *)
(* part storage holds the three keys as stored values: bookmarks is a        *)
(* collection (a function from ids to stored values, NoRecord for an id      *)
(* without entry), settings a settings value, and backup any value: an       *)
(* object is a record of the four properties the code reads, each of them    *)
(* possibly undefined.  repair holds the position of restoreFromBackup, the  *)
(* value its pending write will store, and as history the storage at entry   *)
(* and whether a storage call of cleanupCorruptedBackup failed.              *)

\* a value in a condition: undefined and null are falsy; Primitive stands for
\* a truthy primitive; objects and collections are truthy
Truthy(x) ==
  IF "kind" \in DOMAIN x THEN x.kind \notin {"undefined", "null", "none"} ELSE TRUE

\* typeof x === 'object' for a value that is not null
IsObject(x) == "kind" \in DOMAIN x /\ x.kind = "object"

\* x.name, for x that is not null or undefined
Prop(x, name) == IF IsObject(x) THEN x[name] ELSE UndefinedValue

BackupObject(collection, settings, data, backup) ==
  [kind |-> "object", bookmarks |-> collection, settings |-> settings,
   data |-> data, backup |-> backup]

\* the literal {bookmarks: ..., settings: ...}
DataShape(collection, settings) ==
  BackupObject(collection, settings, UndefinedValue, UndefinedValue)

\* the literal {data: validData, timestamp, version}
CleanBackup(validData) ==
  BackupObject(UndefinedValue, UndefinedValue, validData, UndefinedValue)

RECURSIVE ExtractValidDataDataOnly(_)
\* an extraction that follows the data property only
ExtractValidDataDataOnly(backup) ==
  IF ~Truthy(backup) \/ ~IsObject(backup) THEN NullValue
  ELSE IF Truthy(backup.bookmarks) /\ Truthy(backup.settings)
       THEN DataShape(backup.bookmarks, backup.settings)
  ELSE IF Truthy(backup.data) THEN ExtractValidDataDataOnly(backup.data)
  ELSE NullValue

RECURSIVE ExtractValidData(_)
\* extractValidData of cleanupCorruptedBackup
ExtractValidData(backup) ==
  IF ~Truthy(backup) \/ ~IsObject(backup) THEN NullValue
  ELSE IF Truthy(backup.bookmarks) /\ Truthy(backup.settings)
       THEN DataShape(backup.bookmarks, backup.settings)
  ELSE LET dataResult == IF Truthy(backup.data) THEN ExtractValidData(backup.data)
                         ELSE NullValue
       IN IF dataResult # NullValue THEN dataResult
          ELSE IF Truthy(backup.backup) THEN ExtractValidData(backup.backup)
          ELSE NullValue

EmptyStored == [v \in VideoIds |-> NoRecord]

\* validateAndRepairBookmarks as a function of its argument, which is not
\* null: undefined takes the default {} and a primitive has no entries
RepairedCollection(collection) ==
  IF "kind" \in DOMAIN collection THEN EmptyStored
  ELSE [id \in DOMAIN collection |-> RepairedEntry(id, collection[id])]

NoRestore ==
  [stage |-> "idle", before |-> UndefinedValue, cleanupFailed |-> FALSE,
   pending |-> UndefinedValue, result |-> FALSE]

RestoreUnchanged ==
  UNCHANGED <<retry, call, periodic, timers, handled, dropped, backgroundVars, observerVars,
              roundTrip>>

\* restoreFromBackup up to the getStorage() of cleanupCorruptedBackup
RestoreFromBackup ==
  /\ repair.stage = "idle"
  /\ repair' = [NoRestore EXCEPT !.stage = "cleanupGet", !.before = storage]
  /\ UNCHANGED storage
  /\ RestoreUnchanged

\* getStorage() of cleanupCorruptedBackup resolves
CleanupGetResolves ==
  /\ repair.stage = "cleanupGet"
  /\ repair' = IF ~Truthy(storage.backup)
               THEN [repair EXCEPT !.stage = "get"]
               ELSE [repair EXCEPT !.stage = "cleanupSet",
                                   !.pending = ExtractValidData(storage.backup)]
  /\ UNCHANGED storage
  /\ RestoreUnchanged

\* getStorage() of cleanupCorruptedBackup throws; the catch block logs it
CleanupGetRejects ==
  /\ repair.stage = "cleanupGet"
  /\ repair' = [repair EXCEPT !.stage = "get", !.cleanupFailed = TRUE]
  /\ UNCHANGED storage
  /\ RestoreUnchanged

\* the set of the clean backup, or the remove of the backup key, resolves
CleanupWriteResolves ==
  /\ repair.stage = "cleanupSet"
  /\ storage' = [storage EXCEPT !.backup = IF repair.pending # NullValue
                                            THEN CleanBackup(repair.pending)
                                            ELSE UndefinedValue]
  /\ repair' = [repair EXCEPT !.stage = "get"]
  /\ RestoreUnchanged

\* the set or the remove rejects; the catch block logs it
CleanupWriteRejects ==
  /\ repair.stage = "cleanupSet"
  /\ repair' = [repair EXCEPT !.stage = "get", !.cleanupFailed = TRUE]
  /\ UNCHANGED storage
  /\ RestoreUnchanged

\* withRetry('get backup') resolves and restoreFromBackup runs up to its set
\* or its end; Object.entries(null) throws inside validateAndRepairBookmarks
BackupGetResolves ==
  /\ repair.stage = "get"
  /\ LET data == Prop(storage.backup, "data")
     IN repair' =
          IF ~Truthy(data) THEN [repair EXCEPT !.stage = "returned", !.result = FALSE]
          ELSE IF Prop(data, "bookmarks") = NullValue
               THEN [repair EXCEPT !.stage = "threw"]
          ELSE [repair EXCEPT
                  !.stage = "set",
                  !.pending =
                     [bookmarks |-> RepairedCollection(Prop(data, "bookmarks")),
                      settings |-> ValidateAndRepairSettings(Prop(data, "settings"))]]
  /\ UNCHANGED storage
  /\ RestoreUnchanged

\* withRetry('get backup') throws after its attempts
BackupGetRejects ==
  /\ repair.stage = "get"
  /\ repair' = [repair EXCEPT !.stage = "threw"]
  /\ UNCHANGED storage
  /\ RestoreUnchanged

\* chrome.storage.local.set of the validated data resolves
RestoreSetResolves ==
  /\ repair.stage = "set"
  /\ storage' = [storage EXCEPT !.bookmarks = repair.pending.bookmarks,
                                !.settings = repair.pending.settings]
  /\ repair' = [repair EXCEPT !.stage = "returned", !.result = TRUE]
  /\ RestoreUnchanged

\* chrome.storage.local.set of the validated data rejects
RestoreSetRejects ==
  /\ repair.stage = "set"
  /\ repair' = [repair EXCEPT !.stage = "threw"]
  /\ UNCHANGED storage
  /\ RestoreUnchanged

(* One call of restoreFromBackup on a store whose backup is any value up to  *)
(* two levels of nesting, under any pattern of storage failures.             *)
ValidStoredA ==
  [ValidStored EXCEPT !.id = JStr("A"), !.url = JStr("A")]

\* lastTimestamp is a string that is not a numeral
CorruptStoredA ==
  [ValidStoredA EXCEPT !.lastTimestamp = Str, !.maxTimestamp = Num(-1)]

\* lastTimestamp is negative
NegativeStoredA ==
  [ValidStoredA EXCEPT !.lastTimestamp = Num(-1)]

LiveBookmarks == [v \in VideoIds |-> IF v = "B" THEN ValidStored ELSE NoRecord]

LiveSettings == [kind |-> "object", autoTrack |-> JBool(FALSE), cleanupDays |-> Num(7)]

BackupBookmarks ==
  {UndefinedValue, NullValue} \cup
  { [v \in VideoIds |-> IF v = "A" THEN value ELSE ValidStored] :
      value \in {ValidStoredA, CorruptStoredA, NegativeStoredA, NullValue} }

BackupSettings ==
  {UndefinedValue,
   [kind |-> "object", autoTrack |-> JBool(FALSE), cleanupDays |-> Num(400)],
   [kind |-> "object", autoTrack |-> JBool(FALSE), cleanupDays |-> Str]}

BackupLeaves ==
  {NullValue, Primitive} \cup
  { DataShape(collection, settings) :
      collection \in BackupBookmarks, settings \in BackupSettings }

\* a value wrapped under data, under backup, or under backup next to a data
\* property that holds no shape
Wrapped(values) ==
  { BackupObject(UndefinedValue, UndefinedValue, value, UndefinedValue) : value \in values }
  \cup
  { BackupObject(UndefinedValue, UndefinedValue, UndefinedValue, value) : value \in values }
  \cup
  { BackupObject(UndefinedValue, UndefinedValue, Primitive, value) : value \in values }

StoredBackups ==
  {UndefinedValue} \cup BackupLeaves \cup Wrapped(BackupLeaves)
    \cup Wrapped(Wrapped(BackupLeaves))

InitRestore ==
  /\ activeVideos = [t \in Tabs |-> NoVideo]
  /\ bookmarks = EmptyCollection
  /\ ops = {}
  /\ now = 1
  /\ confirms = {}
  /\ NoObservers
  /\ pendingIds = {}
  /\ roundTrip = NoRoundTrip
  /\ repair = NoRestore
  /\ retry = NoRetry
  /\ call = NoCall
  /\ storage \in { [bookmarks |-> LiveBookmarks, settings |-> LiveSettings,
                    backup |-> backup] : backup \in StoredBackups }
  /\ periodic = NoPeriodic
  /\ timers = NoTimers
  /\ handled = {}
  /\ dropped = NoDropped

NextRestore ==
  \/ RestoreFromBackup
  \/ CleanupGetResolves
  \/ CleanupGetRejects
  \/ CleanupWriteResolves
  \/ CleanupWriteRejects
  \/ BackupGetResolves
  \/ BackupGetRejects
  \/ RestoreSetResolves
  \/ RestoreSetRejects

SpecRestore == InitRestore /\ [][NextRestore]_vars

\* C28: after restoreFromBackup has returned true, every bookmark in live
\* storage satisfies isValidBookmark and the settings satisfy isValidSettings.
C28_RestoredDataIsValid ==
  (repair.stage = "returned" /\ repair.result)
    => /\ \A v \in VideoIds :
            storage.bookmarks[v] = NoRecord \/ IsValidBookmark(storage.bookmarks[v])
       /\ IsValidSettings(storage.settings)

RECURSIVE ReachableShapes(_)
\* the {bookmarks, settings} shapes at any level of a stored backup that is
\* reachable through data and backup properties
ReachableShapes(value) ==
  IF ~IsObject(value) THEN {}
  ELSE (IF Truthy(value.bookmarks) /\ Truthy(value.settings)
        THEN {DataShape(value.bookmarks, value.settings)} ELSE {})
       \cup ReachableShapes(value.data) \cup ReachableShapes(value.backup)

----------------------------------------------------------------------------
(* BackgroundManager.initialize and destroy.  initialize is two steps, up to *)
(* its await of the initial cleanupOldBookmarks and from there to its end;   *)
(* storageManager.initialize and the settings read before them find a valid  *)
(* store.  destroy is called while no initialize is in progress.             *)

LifecycleUnchanged ==
  UNCHANGED <<repair, retry, storage, periodic, handled, dropped, bookmarks, ops, now,
              pendingIds, observerVars, roundTrip>>

\* the daily cleanup reads cleanupDays = 1 from the stored settings
CleanupCall == NewCall("cleanupOldBookmarks", "none", 1, TRUE)

\* initialize up to `await this.cleanupOldBookmarks()`: the listeners are
\* added and startPeriodicSaves sets saveInterval
ManagerInitialize ==
  /\ timers.pc = "idle"
  /\ ~timers.isInitialized
  /\ call.pc \in {"idle", "returned", "threw"}
  /\ timers' = [timers EXCEPT !.pc = "cleanup", !.listening = TRUE, !.saveInterval = TRUE]
  /\ call' = CleanupCall
  /\ UNCHANGED <<activeVideos, confirms>>
  /\ LifecycleUnchanged

\* the initial cleanup has ended: setInterval of the daily cleanup, whose
\* handle is not kept, and isInitialized = true
ManagerInitialized ==
  /\ timers.pc = "cleanup"
  /\ call.pc \in {"returned", "threw"}
  /\ timers.cleanupIntervals < MaxIntervals
  /\ timers' = [timers EXCEPT !.pc = "idle", !.isInitialized = TRUE,
                              !.cleanupIntervals = @ + 1]
  /\ UNCHANGED <<activeVideos, confirms, call>>
  /\ LifecycleUnchanged

\* destroy
ManagerDestroy ==
  /\ timers.pc = "idle"
  /\ timers' = [timers EXCEPT !.saveInterval = FALSE, !.isInitialized = FALSE]
  /\ activeVideos' = [t \in Tabs |-> NoVideo]
  /\ confirms' = Reiterate(activeVideos')
  /\ UNCHANGED call
  /\ LifecycleUnchanged

\* the save interval fires
SaveTimerFires ==
  /\ timers.saveInterval
  /\ PeriodicSave

\* a daily cleanup interval fires: this.cleanupOldBookmarks() runs to its
\* first await
CleanupTimerFires ==
  /\ timers.cleanupIntervals > 0
  /\ call.pc \in {"idle", "returned", "threw"}
  /\ timers' = [timers EXCEPT !.cleanupTick = ~@]
  /\ call' = CleanupCall
  /\ UNCHANGED <<activeVideos, confirms>>
  /\ LifecycleUnchanged

InitLifecycle ==
  /\ activeVideos = [t \in Tabs |-> NoVideo]
  /\ bookmarks = [EmptyCollection EXCEPT !["A"] = StoredBookmark("A")]
  /\ ops = {}
  /\ now = 0
  /\ confirms = {}
  /\ NoObservers
  /\ pendingIds = {}
  /\ roundTrip = NoRoundTrip
  /\ repair = NoRepair
  /\ retry = NoRetry
  /\ call = NoCall
  /\ storage = DefaultStorage
  /\ periodic = NoPeriodic
  /\ timers = NoTimers
  /\ handled = {}
  /\ dropped = NoDropped

NextLifecycle ==
  \/ ManagerInitialize
  \/ ManagerInitialized
  \/ ManagerDestroy
  \/ SaveTimerFires
  \/ CleanupTimerFires
  \/ timers.listening /\ HandleVideoDetected(1, "A", "A", "T", "U", 1, 1)
  \/ StorageStep
  \/ CallGetResolves
  \/ CallSetResolves

SpecLifecycle == InitLifecycle /\ [][NextLifecycle]_vars

\* C30: while the manager is destroyed (or not yet initialized) neither the
\* periodic save interval nor the daily cleanup interval fires.
C30_NoTimerAfterDestroy ==
  [][(timers.pc = "idle" /\ ~timers.isInitialized)
       => (periodic' = periodic /\ timers'.cleanupTick = timers.cleanupTick)]_vars

----------------------------------------------------------------------------
(* A deletion whose deleteBookmark can fail because chrome.storage.local     *)
(* rejects, watched by the popup and by the controls of tab 1.               *)

\* the handler's deleteBookmark: getStorage() or chrome.storage.local.set
\* rejects; withRetry tries again, and after the last attempt the catch block
\* of handleConfirmDelete logs the error and nothing is broadcast
ConfirmDeleteRejects(c) ==
  /\ c \in confirms
  /\ c.stage = "delete"
  /\ IF c.attempt + 1 = StorageMaxAttempts
     THEN /\ confirms' = confirms \ {c}
          /\ pendingIds' = pendingIds \ {c.videoId}
     ELSE /\ confirms' = (confirms \ {c}) \cup
                         {[c EXCEPT !.attempt = c.attempt + 1, !.phase = "get"]}
          /\ UNCHANGED pendingIds
  /\ roundTrip' = NoRoundTrip
  /\ UNCHANGED <<pureVars, activeVideos, bookmarks, ops, now, observerVars>>

NextFailing ==
  \/ PopupOpen
  \/ PopupInitiateDelete("A")
  \/ PopupTimeout("A")
  \/ PopupReceive
  \/ ControlsInitiateDelete(1)
  \/ ControlsTimeout(1)
  \/ ControlsReceive(1)
  \/ HandleInitiateDelete("A", TRUE)
  \/ HandleConfirmDelete("A", TRUE)
  \/ ConfirmStep
  \/ \E c \in confirms : ConfirmDeleteRejects(c)

SpecFailing == InitLive /\ [][NextFailing]_vars

\* no handler is running, no message is in flight and no countdown is armed
Settled ==
  /\ confirms = {}
  /\ msgs = NoMessages
  /\ popup.timers = {}
  /\ \A t \in Tabs : ~controls[t].undoTimer

\* C31: once a deletion has run its course, the popup has removed bookmark A
\* from its list, and the controls of a tab on A are inactive, only if the
\* coordinator's deleteBookmark removed A from storage.
C31_RemovedOnlyIfDeleted ==
  (Settled /\ bookmarks["A"] # NoBookmark)
    => /\ popup.open => "A" \in popup.bookmarks
       /\ \A t \in Tabs : controls[t].videoId = "A" => controls[t].isActive

\* C32: a handleConfirmDelete that began while its video was not pending
\* deletion (and is the only one running) removes neither a session of that
\* video nor its stored bookmark.
C32_ConfirmNeedsPending ==
  [][\A c \in confirms :
       (confirms = {c} /\ ~c.wasPending /\ c \notin confirms')
         => /\ bookmarks[c.videoId] # NoBookmark => bookmarks'[c.videoId] # NoBookmark
            /\ \A t \in Tabs :
                 (activeVideos[t] # NoVideo /\ activeVideos[t].id = c.videoId)
                   => activeVideos'[t] # NoVideo]_vars

(* Detections of video A on tab 1 with every combination of present and     *)
(* missing fields, between timestamp updates that are saved one at a time.   *)
NextMerge ==
  \/ \E ti \in Titles, au \in Authors,
        l \in Timestamps \cup {Undefined}, m \in Timestamps \cup {Undefined} :
       HandleVideoDetected(1, "A", "A", ti, au, l, m)
  \/ \E ts \in Timestamps, h \in BOOLEAN :
       ops = {} /\ HandleUpdateTimestamp(1, "A", ts, h)
  \/ StorageStep

SpecMerge == Init /\ [][NextMerge]_vars

\* C33: a VIDEO_DETECTED for the video of the tab's session that is accepted
\* leaves a session whose title and author are the incoming ones, or the
\* previous ones where the incoming are empty, whose lastTimestamp is the
\* incoming one, or the previous one where it is missing, and whose
\* maxTimestamp is not lower than the previous maxTimestamp.
C33_DetectionMerges ==
  [][\A ti \in Titles, au \in Authors,
        l \in Timestamps \cup {Undefined}, m \in Timestamps \cup {Undefined} :
       (/\ activeVideos[1] # NoVideo
        /\ activeVideos[1].id = "A"
        /\ HandleVideoDetected(1, "A", "A", ti, au, l, m))
         => /\ activeVideos'[1].title = IF ti = "" THEN activeVideos[1].title ELSE ti
            /\ activeVideos'[1].author = IF au = "" THEN activeVideos[1].author ELSE au
            /\ activeVideos'[1].lastTimestamp =
                 IF l = Undefined THEN activeVideos[1].lastTimestamp ELSE l
            /\ activeVideos'[1].maxTimestamp >= activeVideos[1].maxTimestamp
            /\ m # Undefined => activeVideos'[1].maxTimestamp >= m]_vars

\* only detections have been handled (no save was ever started) and the
\* session holds a lastTimestamp and a higher maxTimestamp
C33_Witness ==
  /\ activeVideos[1] # NoVideo
  /\ activeVideos[1].id = "A"
  /\ activeVideos[1].lastTimestamp = 1
  /\ activeVideos[1].maxTimestamp = 2
  /\ ops = {}
  /\ bookmarks["A"] = NoBookmark

----------------------------------------------------------------------------
(* BackgroundManager.handleGetVideoState.  The handler reads the tab's       *)
(* session before its await of storageManager.getBookmark; call holds that   *)
(* session next to the locals of getBookmark, and as history whether the     *)
(* video was Deleted when the handler began.                                 *)

\* handleGetVideoState up to its await
HandleGetVideoState(tabId, videoId) ==
  /\ call.pc \in {"idle", "returned", "threw"}
  /\ call' = NewCall("getBookmark", videoId, 0, TRUE) @@
               [tabId |-> tabId, activeVideo |-> activeVideos[tabId],
                wasDeleted |-> Deleted(videoId)]
  /\ CallUnchanged

\* a response that carries the tab's session whatever its video
GetVideoStateResponseAnySession(c) ==
  [bookmark |-> IF c.pc = "returned" THEN c.value ELSE NoBookmark,
   activeVideo |-> c.activeVideo]

\* the object handleGetVideoState resolves with once getBookmark has returned
\* or thrown; NoBookmark and NoVideo stand for null
GetVideoStateResponse(c) ==
  [bookmark |-> IF c.pc = "returned" THEN c.value ELSE NoBookmark,
   activeVideo |-> IF c.activeVideo # NoVideo /\ c.activeVideo.id = c.videoId
                   THEN c.activeVideo ELSE NoVideo]

(* Two tabs watch the stored video A while its deletion is initiated, undone *)
(* and confirmed, and either tab queries the state of A or B.  One           *)
(* CONFIRM_DELETE is handled at a time, so that no save of an earlier        *)
(* handler lands after the deletion and a Deleted video stays Deleted.       *)
NextQuery ==
  \/ HandleInitiateDelete("A", FALSE)
  \/ HandleUndoDelete("A", FALSE)
  \/ confirms = {} /\ HandleConfirmDelete("A", FALSE)
  \/ ConfirmStep
  \/ \E t \in Tabs, v \in VideoIds : HandleGetVideoState(t, v)
  \/ CallGetResolves
  \/ CallGetRejects
  \/ CallSleepEnds

SpecQuery == InitTracking /\ [][NextQuery]_vars

DeletedStays == [][Deleted("A") => Deleted("A")']_vars

----------------------------------------------------------------------------
(* StorageRecovery.createBackup, and StorageManager.saveBookmark with its    *)
(* checkBackup.  storage holds the three keys as stored values as in         *)
(* restoreFromBackup; call holds the position of the one createBackup or     *)
(* saveBookmark in progress and the value its pending write will store.      *)
(* Whether checkBackup finds the backup interval elapsed depends on the      *)
(* clock alone and is left open.                                             *)

BackupUnchanged ==
  UNCHANGED <<repair, retry, periodic, timers, handled, dropped, backgroundVars,
              observerVars, roundTrip>>

\* a backup that copies every key of the storage, the backup key included
BackupOfWholeStorage(stored) ==
  CleanBackup(BackupObject(
    IF Truthy(stored.bookmarks) THEN stored.bookmarks ELSE EmptyStored,
    IF Truthy(stored.settings) THEN stored.settings ELSE RawDefaultSettings,
    UndefinedValue,
    stored.backup))

\* the BackupData createBackup builds from the storage it read
BackupOf(stored) ==
  CleanBackup(DataShape(
    IF Truthy(stored.bookmarks) THEN stored.bookmarks ELSE EmptyStored,
    IF Truthy(stored.settings) THEN stored.settings ELSE RawDefaultSettings))

CallEnded == call.pc \in {"idle", "returned", "threw"}

\* createBackup up to its getStorage()
CreateBackup ==
  /\ CallEnded
  /\ call' = [pc |-> "backupGet", method |-> "createBackup", pending |-> UndefinedValue]
  /\ UNCHANGED storage
  /\ BackupUnchanged

\* saveBookmark(bookmark) up to its getStorage()
SaveBookmarkWithBackup ==
  /\ CallEnded
  /\ call' = [pc |-> "saveGet", method |-> "saveBookmark", pending |-> UndefinedValue]
  /\ UNCHANGED storage
  /\ BackupUnchanged

\* getStorage() of saveBookmark resolves: the bookmark is put into the copy
SaveWithBackupGetResolves ==
  /\ call.pc = "saveGet"
  /\ call' = [call EXCEPT
                !.pc = "saveSet",
                !.pending = [(IF Truthy(storage.bookmarks) THEN storage.bookmarks
                              ELSE EmptyStored) EXCEPT !["A"] = ValidStoredA]]
  /\ UNCHANGED storage
  /\ BackupUnchanged

\* the set of the bookmarks key resolves and checkBackup runs: it returns, or
\* it calls createBackup
SaveWithBackupSetResolves ==
  /\ call.pc = "saveSet"
  /\ storage' = [storage EXCEPT !.bookmarks = call.pending]
  /\ \E due \in BOOLEAN :
       call' = [call EXCEPT !.pc = IF due THEN "backupGet" ELSE "returned",
                            !.pending = UndefinedValue]
  /\ BackupUnchanged

\* getStorage() of createBackup resolves
CreateBackupGetResolves ==
  /\ call.pc = "backupGet"
  /\ call' = [call EXCEPT !.pc = "backupSet", !.pending = BackupOf(storage)]
  /\ UNCHANGED storage
  /\ BackupUnchanged

\* withRetry('create backup') resolves
CreateBackupSetResolves ==
  /\ call.pc = "backupSet"
  /\ storage' = [storage EXCEPT !.backup = call.pending]
  /\ call' = [call EXCEPT !.pc = "returned"]
  /\ BackupUnchanged

\* a storage call of createBackup or saveBookmark fails on every attempt
BackupCallRejects ==
  /\ call.pc \in {"saveGet", "saveSet", "backupGet", "backupSet"}
  /\ call' = [call EXCEPT !.pc = "threw"]
  /\ UNCHANGED storage
  /\ BackupUnchanged

\* restoreFromBackup is called again after an earlier call has ended
RestoreFromBackupAgain ==
  /\ repair.stage \in {"returned", "threw"}
  /\ repair' = [NoRestore EXCEPT !.stage = "cleanupGet", !.before = storage]
  /\ UNCHANGED storage
  /\ RestoreUnchanged

(* Any number of createBackup, saveBookmark and restoreFromBackup calls, a   *)
(* restore running concurrently with a backup or a save, on a store whose    *)
(* backup is at first absent, well formed, or nested by an earlier version.  *)
InitBackup ==
  /\ activeVideos = [t \in Tabs |-> NoVideo]
  /\ bookmarks = EmptyCollection
  /\ ops = {}
  /\ now = 1
  /\ confirms = {}
  /\ NoObservers
  /\ pendingIds = {}
  /\ roundTrip = NoRoundTrip
  /\ repair = NoRestore
  /\ retry = NoRetry
  /\ call = NoCall
  /\ storage \in { [bookmarks |-> LiveBookmarks, settings |-> LiveSettings,
                    backup |-> backup] :
                    backup \in {UndefinedValue, CleanBackup(DataShape(LiveBookmarks, LiveSettings))}
                                 \cup Wrapped(Wrapped({DataShape(LiveBookmarks, UndefinedValue),
                                                       DataShape(LiveBookmarks, LiveSettings)})) }
  /\ periodic = NoPeriodic
  /\ timers = NoTimers
  /\ handled = {}
  /\ dropped = NoDropped

NextBackup ==
  \/ CreateBackup
  \/ SaveBookmarkWithBackup
  \/ SaveWithBackupGetResolves
  \/ SaveWithBackupSetResolves
  \/ CreateBackupGetResolves
  \/ CreateBackupSetResolves
  \/ BackupCallRejects
  \/ RestoreFromBackup
  \/ RestoreFromBackupAgain
  \/ CleanupGetResolves
  \/ CleanupGetRejects
  \/ CleanupWriteResolves
  \/ CleanupWriteRejects
  \/ BackupGetResolves
  \/ BackupGetRejects
  \/ RestoreSetResolves
  \/ RestoreSetRejects

SpecBackup == InitBackup /\ [][NextBackup]_vars

\* the stored backup is {data: {bookmarks, settings}, timestamp, version} and
\* nothing is nested in it
FlatBackup(backup) ==
  /\ IsObject(backup)
  /\ backup.bookmarks = UndefinedValue
  /\ backup.settings = UndefinedValue
  /\ backup.backup = UndefinedValue
  /\ IsObject(backup.data)
  /\ Truthy(backup.data.bookmarks)
  /\ Truthy(backup.data.settings)
  /\ backup.data.data = UndefinedValue
  /\ backup.data.backup = UndefinedValue

\* C35: every write of the backup key by createBackup, saveBookmark or
\* restoreFromBackup leaves a backup whose data holds bookmarks and settings
\* only, with no backup nested in it, or removes the key; a flat backup stays
\* flat however many backups are taken.
C35_BackupNeverNested ==
  [][/\ storage'.backup # storage.backup
          => storage'.backup = UndefinedValue \/ FlatBackup(storage'.backup)
     /\ FlatBackup(storage.backup)
          => storage'.backup = UndefinedValue \/ FlatBackup(storage'.backup)]_vars

\* a second backup has been written over a flat one after a save and a restore
C35_Witness ==
  /\ call.pc = "returned"
  /\ call.method = "saveBookmark"
  /\ repair.stage = "returned"
  /\ repair.result
  /\ FlatBackup(storage.backup)
  /\ FlatBackup(repair.before.backup)
  /\ storage.backup # repair.before.backup

----------------------------------------------------------------------------
\* C36: a session marked pendingDeletion keeps the mark for as long as it is
\* the tab's session of that video, unless the step is the UNDO_DELETE or the
\* end of the CONFIRM_DELETE of the video (pendingIds holds the videos whose
\* INITIATE_DELETE was handled and not yet undone or confirmed).
C36_PendingSurvivesDetection ==
  [][\A t \in Tabs :
       (/\ activeVideos[t] # NoVideo
        /\ activeVideos[t].pendingDeletion
        /\ activeVideos'[t] # NoVideo
        /\ activeVideos'[t].id = activeVideos[t].id)
         => \/ activeVideos'[t].pendingDeletion
            \/ activeVideos[t].id \notin pendingIds']_vars

----------------------------------------------------------------------------
(* Two tabs, each detecting, updating and leaving either video.              *)

\* a tab-scoped event of tab t is handled
TabHandler(t) ==
  \/ \E v \in VideoIds : HandleVideoDetected(t, v, v, "T", "U", 0, Undefined)
  \/ \E v \in VideoIds, h \in BOOLEAN : HandleUpdateTimestamp(t, v, 1, h)
  \/ \E v \in VideoIds : HandleVideoClosed(t, v)
  \/ HandleTabRemoved(t)
  \/ HandleTabUpdated(t)

NextIsolation ==
  \/ \E t \in Tabs, v \in VideoIds : HandleVideoDetected(t, v, v, "T", "U", 0, Undefined)
  \/ \E t \in Tabs, v \in VideoIds, h \in BOOLEAN : HandleUpdateTimestamp(t, v, 1, h)
  \/ \E t \in Tabs, v \in VideoIds : HandleVideoClosed(t, v)
  \/ \E t \in Tabs : HandleTabRemoved(t)
  \/ \E t \in Tabs : HandleTabUpdated(t)
  \/ StorageStep

SpecIsolation == Init /\ [][NextIsolation]_vars

\* C37: every session is stored under its own tabId, and a tab-scoped event
\* of tab t (VIDEO_DETECTED, UPDATE_TIMESTAMP, VIDEO_CLOSED, tab removed, tab
\* loading) leaves the session of every other tab as it was.
C37_TabIsolation ==
  /\ [](\A t \in Tabs : activeVideos[t] # NoVideo => activeVideos[t].tabId = t)
  /\ [][\A t \in Tabs :
          TabHandler(t) => \A u \in Tabs \ {t} : activeVideos'[u] = activeVideos[u]]_vars

\* tab 1 has left video A while tab 2 goes on with its session for A
C37_Witness ==
  /\ activeVideos[1] = NoVideo
  /\ activeVideos[2] # NoVideo
  /\ activeVideos[2].id = "A"
  /\ activeVideos[2].lastTimestamp = 1
  /\ \E op \in ops : op.bm.id = "B"

----------------------------------------------------------------------------
(* BackgroundManager.handleMessage for the messages of content scripts.  A   *)
(* message carries the tabId its sender declares; sender is the id of the    *)
(* tab chrome reports as the sender, NoTab when sender.tab is undefined.     *)

NoTab == 0

\* a dispatch that lets the message's own tabId override the sender's
MessageWithDeclaredTabId(message, sender) ==
  IF message.tabId # NoTab THEN message ELSE [message EXCEPT !.tabId = sender]

\* messageWithTabId = {...message, tabId}
MessageWithTabId(message, sender) == [message EXCEPT !.tabId = sender]

TabMessages ==
  [type : {"VIDEO_DETECTED", "VIDEO_CLOSED", "UPDATE_TIMESTAMP", "GET_VIDEO_STATE"},
   tabId : Tabs \cup {NoTab},
   videoId : {"A"}]

\* handleMessage from the test of sender.tab?.id on
HandleMessage(message, sender) ==
  IF sender = NoTab
  THEN UNCHANGED vars
  ELSE LET messageWithTabId == MessageWithTabId(message, sender)
       IN CASE message.type = "VIDEO_DETECTED" ->
                 HandleVideoDetected(messageWithTabId.tabId, messageWithTabId.videoId,
                                     messageWithTabId.videoId, "T", "U", 0, Undefined)
            [] message.type = "VIDEO_CLOSED" ->
                 HandleVideoClosed(messageWithTabId.tabId, messageWithTabId.videoId)
            [] message.type = "UPDATE_TIMESTAMP" ->
                 HandleUpdateTimestamp(messageWithTabId.tabId, messageWithTabId.videoId,
                                       1, FALSE)
            [] message.type = "GET_VIDEO_STATE" ->
                 HandleGetVideoState(messageWithTabId.tabId, messageWithTabId.videoId)

(* Two tabs send tab-scoped messages about video A, each declaring its own   *)
(* tab id, the other tab's, or none; messages also arrive from senders       *)
(* without a tab.  A message is handled while no save is in flight, and a    *)
(* message other than a query while no query is in progress.                 *)
NextMessages ==
  \/ \E message \in TabMessages, sender \in Tabs \cup {NoTab} :
       /\ ops = {}
       /\ message.type # "GET_VIDEO_STATE" => CallEnded
       /\ HandleMessage(message, sender)
  \/ StorageStep
  \/ CallGetResolves
  \/ CallGetRejects
  \/ CallSleepEnds

SpecMessages == Init /\ [][NextMessages]_vars

\* C38: the handling of a tab-scoped message is the same whatever tabId the
\* message declares; it leaves the session of every tab but the sender's
\* unchanged, answers a query with the sender's own session only, and
\* changes nothing when the sender has no tab id.
C38_SenderTabOnly ==
  [][\A message \in TabMessages, sender \in Tabs \cup {NoTab} :
       HandleMessage(message, sender)
         => /\ sender = NoTab => UNCHANGED vars
            /\ \A u \in Tabs \ {sender} : activeVideos'[u] = activeVideos[u]
            /\ (sender # NoTab /\ message.type = "GET_VIDEO_STATE" /\ call' # call)
                 => call'.tabId = sender /\ call'.activeVideo = activeVideos[sender]
            /\ \A declared \in Tabs \cup {NoTab} :
                 HandleMessage([message EXCEPT !.tabId = declared], sender)]_vars

\* tab 2 keeps its session of A while a query of tab 1, which has none, is
\* in progress
C38_Witness ==
  /\ activeVideos[1] = NoVideo
  /\ activeVideos[2] # NoVideo
  /\ activeVideos[2].lastTimestamp = 1
  /\ call.pc = "get"
  /\ call.tabId = 1
  /\ call.activeVideo = NoVideo

----------------------------------------------------------------------------
(* Flushes of two tabs on different videos while the clock advances: tab 1   *)
(* watches A and tab 2 watches B, nothing is stored yet.  A position update  *)
(* of a video is handled while no save of that video is in flight, so that   *)
(* the saves in flight at one time are saves of distinct videos.             *)
InitFlush ==
  /\ activeVideos = [t \in Tabs |->
                       DetectedVideo(t, IF t = 1 THEN "A" ELSE "B", "T", "U", 0, 0, NoVideo)]
  /\ bookmarks = EmptyCollection
  /\ ops = {}
  /\ now = 0
  /\ confirms = {}
  /\ NoObservers
  /\ pendingIds = {}
  /\ roundTrip = NoRoundTrip
  /\ repair = NoRepair
  /\ retry = NoRetry
  /\ call = NoCall
  /\ storage = DefaultStorage
  /\ periodic = NoPeriodic
  /\ timers = NoTimers
  /\ handled = {}
  /\ dropped = NoDropped

NextFlush ==
  \/ PeriodicSave
  \/ \E t \in Tabs :
       /\ \A op \in ops : op.bm.id # activeVideos[t].id
       /\ HandleUpdateTimestamp(t, activeVideos[t].id, 1, FALSE)
  \/ StorageStep
  \/ Tick

SpecFlush == InitFlush /\ [][NextFlush]_vars

\* C39: once the saves that a periodic tick and the position updates started
\* for the sessions of distinct videos have all completed, each of those
\* videos has a stored bookmark with its session's positions.
C39_NoLostFlush ==
  (ops = {} /\ periodic.saved = Tabs)
    => \A t \in Tabs :
         /\ bookmarks[activeVideos[t].id] # NoBookmark
         /\ bookmarks[activeVideos[t].id].lastTimestamp = activeVideos[t].lastTimestamp
         /\ bookmarks[activeVideos[t].id].maxTimestamp = activeVideos[t].maxTimestamp

\* C40: a flush of a video whose bookmark is stored leaves the stored
\* createdAt as it was.
C40_CreatedAtFixed ==
  [][\A v \in VideoIds :
       (bookmarks[v] # NoBookmark /\ bookmarks'[v] # NoBookmark)
         => bookmarks'[v].createdAt = bookmarks[v].createdAt]_vars

====
